---- MODULE Spec2Model ----
(***************************************************************************)
(* Model of the email-analyzer chat pipeline (ChatCommandHandler): the     *)
(* single-email run of '/start', the required-field validator, the ticket  *)
(* classifier, the ticket builders and submitters and the human-review     *)
(* queue.                                                                  *)
(*                                                                         *)
(* JavaScript strings are TLA+ strings, taken apart with Len, SubSeq, Head *)
(* and Tail.  Three characters of the source cannot be written in a TLA+   *)
(* string and are transliterated one-to-one:                               *)
(*   - the emoji that open the progress lines are written as ASCII tags:   *)
(*     [search] [email] [warn] [person] [ok] [cycle] [clipboard] [ticket]  *)
(*     [memo] [key] [chart] [x] [folder];                                  *)
(*   - the box-drawing dash of the rule under a file's lines is written as *)
(*     a hyphen;                                                           *)
(*   - the backquote of a Markdown fence is written as an apostrophe, so   *)
(*     a fenced block opens with '''json.                                  *)
(* In the text decoded from an attachment, a character that is neither a   *)
(* tab, a line break nor printable ASCII, and also the backslash and the   *)
(* backquote, is written \u{n} with n its code point.                      *)
(***************************************************************************)
EXTENDS Integers, Sequences, FiniteSets, TLC

\* ------------------------------------------------------------------------
\* Bounds
\* ------------------------------------------------------------------------

\* Number of '/start' (or other) commands handled by one ChatCommandHandler.
MaxRuns == 2

Runs == 1..MaxRuns

\* ------------------------------------------------------------------------
\* JavaScript strings
\* ------------------------------------------------------------------------

CharAt(s, i) == SubSeq(s, i, i)

\* String.prototype.indexOf(t, from), 1-based; 0 when t does not occur.
IndexOf(s, t, from) ==
    LET idx == {i \in from..(Len(s) - Len(t) + 1) : SubSeq(s, i, i + Len(t) - 1) = t}
    IN IF idx = {} THEN 0 ELSE CHOOSE i \in idx : \A j \in idx : i <= j

\* String.prototype.includes
Includes(s, t) ==
    \E i \in 1..(Len(s) - Len(t) + 1) : SubSeq(s, i, i + Len(t) - 1) = t

\* String.prototype.startsWith
StartsWith(s, t) == Len(s) >= Len(t) /\ SubSeq(s, 1, Len(t)) = t

UpperChars == "ABCDEFGHIJKLMNOPQRSTUVWXYZ"
LowerChars == "abcdefghijklmnopqrstuvwxyz"

LowerOf == [i \in 1..26 |-> CharAt(LowerChars, i)]
UpperIndex == [c \in {CharAt(UpperChars, i) : i \in 1..26} |->
                  CHOOSE i \in 1..26 : CharAt(UpperChars, i) = c]

LowerChar(c) == IF c \in DOMAIN UpperIndex THEN LowerOf[UpperIndex[c]] ELSE c

\* String.prototype.toLowerCase
RECURSIVE toLowerCase(_)
toLowerCase(s) ==
    IF s = "" THEN "" ELSE LowerChar(Head(s)) \o toLowerCase(Tail(s))

\* s.split(sep)[1]: the text between the first and the second occurrence of
\* sep; "undefined" (the rendering of a missing array element inside a
\* template literal) when sep does not occur.
SplitSecond(s, sep) ==
    LET i == IndexOf(s, sep, 1)
    IN IF i = 0 THEN "undefined"
       ELSE LET rest == SubSeq(s, i + Len(sep), Len(s))
                j == IndexOf(rest, sep, 1)
            IN IF j = 0 THEN rest ELSE SubSeq(rest, 1, j - 1)

\* String.prototype.replace(pattern, replacement) with a string pattern:
\* only the first occurrence is replaced.
ReplaceFirst(s, pat, rep) ==
    LET i == IndexOf(s, pat, 1)
    IN IF i = 0 THEN s
       ELSE SubSeq(s, 1, i - 1) \o rep \o SubSeq(s, i + Len(pat), Len(s))

\* Array.prototype.join (the array is evaluated once, as a call evaluates
\* its argument)
RECURSIVE Join(_, _)
Join(seq, sep) ==
    CHOOSE text \in {IF a = <<>> THEN ""
                     ELSE IF Len(a) = 1 THEN a[1]
                     ELSE a[1] \o sep \o Join(Tail(a), sep) : a \in {seq}} : TRUE

\* Array.prototype.includes
Has(seq, x) == \E i \in 1..Len(seq) : seq[i] = x

\* ------------------------------------------------------------------------
\* JavaScript values.  Every value is a record [t, s, m]: t is the type, s
\* the text of a string or the literal of a number, m the members of an
\* object in insertion order, each member [k, t, s] a key with a scalar, an
\* empty array or an empty object.
\* ------------------------------------------------------------------------

Undefined == [t |-> "undefined", s |-> "", m |-> <<>>]
Null      == [t |-> "null", s |-> "", m |-> <<>>]
Str(s)    == [t |-> "string", s |-> s, m |-> <<>>]
Num(s)    == [t |-> "number", s |-> s, m |-> <<>>]
Obj(m)    == [t |-> "object", s |-> "", m |-> m]
EmptyArray == [t |-> "array", s |-> "", m |-> <<>>]
Member(k, v) == [k |-> k, t |-> v.t, s |-> v.s]

\* ToBoolean
Truthy(v) ==
    CASE v.t = "undefined" -> FALSE
      [] v.t = "null"      -> FALSE
      [] v.t = "string"    -> v.s # ""
      [] v.t = "number"    -> v.s # "0"
      [] OTHER             -> TRUE

\* ToString(v), as a template literal or JSON.parse applies it.
JSToString(v) ==
    CASE v.t = "undefined" -> "undefined"
      [] v.t = "null"      -> "null"
      [] v.t = "object"    -> "[object Object]"
      [] v.t = "array"     -> ""
      [] OTHER             -> v.s

\* v.k when v is neither null nor undefined: the last member named k of an
\* object, undefined for a missing member and for a primitive.
GetProp(v, k) ==
    LET idx == {i \in 1..Len(v.m) : v.m[i].k = k}
    IN IF idx = {} THEN Undefined
       ELSE LET i == CHOOSE i \in idx : \A j \in idx : j <= i
            IN [t |-> v.m[i].t, s |-> v.m[i].s, m |-> <<>>]

\* Reading a property of null or undefined throws a TypeError.
PropThrows(v) == v.t \in {"undefined", "null"}

\* ------------------------------------------------------------------------
\* JSON.parse, on the grammar the analysis provider's answers are drawn
\* from: null, an unsigned integer, a string without escapes, the empty
\* array, or an object whose members are such values or the empty object,
\* written without white space.  Any other text is a SyntaxError.
\* ------------------------------------------------------------------------

Digits == "0123456789"

IsNumberText(s) ==
    /\ s # ""
    /\ \A i \in 1..Len(s) : Includes(Digits, CharAt(s, i))
    /\ (Len(s) > 1 => Head(s) # "0")

IsPlainText(s) ==
    \A i \in 1..Len(s) : CharAt(s, i) \notin {"\"", "\\", "\n", "\t"}

ParseFail == [ok |-> FALSE, v |-> Undefined]

ParseScalar(s) ==
    IF s = "null" THEN [ok |-> TRUE, v |-> Null]
    ELSE IF s = "[]" THEN [ok |-> TRUE, v |-> EmptyArray]
    ELSE IF s = "{}" THEN [ok |-> TRUE, v |-> Obj(<<>>)]
    ELSE IF IsNumberText(s) THEN [ok |-> TRUE, v |-> Num(s)]
    ELSE IF /\ Len(s) >= 2
            /\ Head(s) = "\""
            /\ CharAt(s, Len(s)) = "\""
            /\ IsPlainText(SubSeq(s, 2, Len(s) - 1))
         THEN [ok |-> TRUE, v |-> Str(SubSeq(s, 2, Len(s) - 1))]
    ELSE ParseFail

MembersFail == [ok |-> FALSE, m |-> <<>>]

\* A member in front of the members parsed from the rest of the text.
WithMember(key, v, more) ==
    IF more.ok THEN [ok |-> TRUE, m |-> <<Member(key, v)>> \o more.m] ELSE MembersFail

\* Where the value that opens rest ends: at its closing quote, or before the
\* next comma; 0 when a string is not closed.
ValueEnd(rest, comma) ==
    IF rest # "" /\ Head(rest) = "\""
    THEN IndexOf(rest, "\"", 2)
    ELSE IF comma = 0 THEN Len(rest) ELSE comma - 1

RECURSIVE ParseMembers(_)

\* The member key with scalar val, followed by the text after.
ParseAfterValue(key, val, after) ==
    IF ~val.ok \/ ~IsPlainText(key) THEN MembersFail
    ELSE IF after = "" THEN [ok |-> TRUE, m |-> <<Member(key, val.v)>>]
    ELSE IF Head(after) # "," THEN MembersFail
    ELSE WithMember(key, val.v, ParseMembers(Tail(after)))

ParseValue(key, rest, vend) ==
    IF vend = 0 THEN MembersFail
    ELSE ParseAfterValue(key, ParseScalar(SubSeq(rest, 1, vend)),
                         SubSeq(rest, vend + 1, Len(rest)))

\* s opens with a quoted key that closes at position q2.
ParseKey(s, q2) ==
    IF q2 = 0 \/ CharAt(s, q2 + 1) # ":" THEN MembersFail
    ELSE ParseValue(SubSeq(s, 2, q2 - 1), SubSeq(s, q2 + 2, Len(s)),
                    ValueEnd(SubSeq(s, q2 + 2, Len(s)),
                             IndexOf(SubSeq(s, q2 + 2, Len(s)), ",", 1)))

\* The members "key":value,... of an object.
ParseMembers(s) ==
    IF s = "" \/ Head(s) # "\"" THEN MembersFail
    ELSE ParseKey(s, IndexOf(s, "\"", 2))

ObjectOf(ms) == IF ms.ok THEN [ok |-> TRUE, v |-> Obj(ms.m)] ELSE ParseFail

JSONParse(s) ==
    IF Len(s) >= 2 /\ Head(s) = "{" /\ CharAt(s, Len(s)) = "}"
    THEN IF Len(s) = 2 THEN [ok |-> TRUE, v |-> Obj(<<>>)]
         ELSE ObjectOf(ParseMembers(SubSeq(s, 2, Len(s) - 1)))
    ELSE ParseScalar(s)

\* The engine's messages for the two errors the handler can provoke; their
\* exact wording depends on the JavaScript engine.
SyntaxErrorMessage == "Unexpected token in JSON"
TypeErrorMessage   == "Cannot read properties"

\* ------------------------------------------------------------------------
\* ChatCommandHandler: the pure helpers
\* ------------------------------------------------------------------------

\* The labels validateRequiredFields can report.
RequestTypeLabel == "Request Type"
PriorityLabel    == "Priority"
AccountLabel     == "Account Number/Customer ID"
SubjectLabel     == "Subject"

\* validateRequiredFields with the account rule asking for both identifiers.
validateRequiredFields_BothIds(analysis) ==
    (IF ~Truthy(GetProp(analysis, "requestType")) THEN <<RequestTypeLabel>> ELSE <<>>)
    \o (IF ~Truthy(GetProp(analysis, "priority")) THEN <<PriorityLabel>> ELSE <<>>)
    \o (IF \/ ~Truthy(GetProp(analysis, "accountNumber"))
           \/ ~Truthy(GetProp(analysis, "customerId"))
        THEN <<AccountLabel>> ELSE <<>>)
    \o (IF ~Truthy(GetProp(analysis, "subject")) THEN <<SubjectLabel>> ELSE <<>>)

validateRequiredFields(analysis) ==
    (IF ~Truthy(GetProp(analysis, "requestType")) THEN <<RequestTypeLabel>> ELSE <<>>)
    \o (IF ~Truthy(GetProp(analysis, "priority")) THEN <<PriorityLabel>> ELSE <<>>)
    \o (IF /\ ~Truthy(GetProp(analysis, "accountNumber"))
           /\ ~Truthy(GetProp(analysis, "customerId"))
        THEN <<AccountLabel>> ELSE <<>>)
    \o (IF ~Truthy(GetProp(analysis, "subject")) THEN <<SubjectLabel>> ELSE <<>>)

\* v?.toLowerCase() throws a TypeError when v is neither null, undefined nor
\* a string.
LowerThrows(v) == v.t \notin {"undefined", "null", "string"}

\* v?.toLowerCase() || ''
LowerOrEmpty(v) == IF v.t = "string" THEN toLowerCase(v.s) ELSE ""

\* The rule chain with the feature rule tried before the bug rule.
classifyLowered_FeatureFirst(requestType, subject, content) ==
    IF \/ requestType = "feature request"
       \/ Includes(content, "feature")
       \/ Includes(subject, "feature")
    THEN "jira-feature"
    ELSE IF requestType = "bug report" \/ Includes(content, "bug") \/ Includes(content, "crash")
    THEN "jira-bug"
    ELSE IF Includes(content, "epic") \/ Includes(subject, "epic")
    THEN "jira-epic"
    ELSE IF Includes(content, "story") \/ Includes(subject, "story")
    THEN "jira-story"
    ELSE IF Includes(content, "task") \/ Includes(subject, "task")
    THEN "jira-task"
    ELSE IF \/ requestType = "support request"
            \/ Includes(content, "incident")
            \/ Includes(content, "error")
            \/ Includes(content, "broken")
            \/ Includes(content, "trouble")
            \/ Includes(content, "not working")
            \/ Includes(content, "reset")
    THEN "servicenow-incident"
    ELSE "servicenow-request"

\* The rule chain with the incident rule naming a Jira category.
classifyLowered_JiraIncident(requestType, subject, content) ==
    IF requestType = "bug report" \/ Includes(content, "bug") \/ Includes(content, "crash")
    THEN "jira-bug"
    ELSE IF \/ requestType = "feature request"
            \/ Includes(content, "feature")
            \/ Includes(subject, "feature")
    THEN "jira-feature"
    ELSE IF Includes(content, "epic") \/ Includes(subject, "epic")
    THEN "jira-epic"
    ELSE IF Includes(content, "story") \/ Includes(subject, "story")
    THEN "jira-story"
    ELSE IF Includes(content, "task") \/ Includes(subject, "task")
    THEN "jira-task"
    ELSE IF \/ requestType = "support request"
            \/ Includes(content, "incident")
            \/ Includes(content, "error")
            \/ Includes(content, "broken")
            \/ Includes(content, "trouble")
            \/ Includes(content, "not working")
            \/ Includes(content, "reset")
    THEN "jira-incident"
    ELSE "servicenow-request"

\* The rule chain of classifyTicketType over the three lower-cased texts.
classifyLowered(requestType, subject, content) ==
    IF requestType = "bug report" \/ Includes(content, "bug") \/ Includes(content, "crash")
    THEN "jira-bug"
    ELSE IF \/ requestType = "feature request"
            \/ Includes(content, "feature")
            \/ Includes(subject, "feature")
    THEN "jira-feature"
    ELSE IF Includes(content, "epic") \/ Includes(subject, "epic")
    THEN "jira-epic"
    ELSE IF Includes(content, "story") \/ Includes(subject, "story")
    THEN "jira-story"
    ELSE IF Includes(content, "task") \/ Includes(subject, "task")
    THEN "jira-task"
    ELSE IF \/ requestType = "support request"
            \/ Includes(content, "incident")
            \/ Includes(content, "error")
            \/ Includes(content, "broken")
            \/ Includes(content, "trouble")
            \/ Includes(content, "not working")
            \/ Includes(content, "reset")
    THEN "servicenow-incident"
    ELSE "servicenow-request"

\* classifyTicketType: [throws, v]; it throws when a field is present and
\* is not a string.
classifyTicketType(analysis) ==
    IF \/ LowerThrows(GetProp(analysis, "content"))
       \/ LowerThrows(GetProp(analysis, "subject"))
       \/ LowerThrows(GetProp(analysis, "requestType"))
    THEN [throws |-> TRUE, v |-> ""]
    ELSE [throws |-> FALSE,
          v |-> classifyLowered(LowerOrEmpty(GetProp(analysis, "requestType")),
                                LowerOrEmpty(GetProp(analysis, "subject")),
                                LowerOrEmpty(GetProp(analysis, "content")))]

\* The ticket with the subject as its title, whatever the subject.
createServiceNowTicket_NoFallback(analysis, type) ==
    [type          |-> type,
     title         |-> GetProp(analysis, "subject"),
     description   |-> GetProp(analysis, "content"),
     priority      |-> GetProp(analysis, "priority"),
     accountNumber |-> GetProp(analysis, "accountNumber"),
     customerId    |-> GetProp(analysis, "customerId"),
     attachments   |-> GetProp(analysis, "attachments")]

\* createJiraTicket and createServiceNowTicket build the same shape.
createJiraTicket(analysis, type) ==
    [type          |-> type,
     title         |-> IF Truthy(GetProp(analysis, "subject"))
                       THEN GetProp(analysis, "subject") ELSE Str("No Subject"),
     description   |-> GetProp(analysis, "content"),
     priority      |-> GetProp(analysis, "priority"),
     accountNumber |-> GetProp(analysis, "accountNumber"),
     customerId    |-> GetProp(analysis, "customerId"),
     attachments   |-> GetProp(analysis, "attachments")]

createServiceNowTicket(analysis, type) ==
    [type          |-> type,
     title         |-> IF Truthy(GetProp(analysis, "subject"))
                       THEN GetProp(analysis, "subject") ELSE Str("No Subject"),
     description   |-> GetProp(analysis, "content"),
     priority      |-> GetProp(analysis, "priority"),
     accountNumber |-> GetProp(analysis, "accountNumber"),
     customerId    |-> GetProp(analysis, "customerId"),
     attachments   |-> GetProp(analysis, "attachments")]

NoTicket == [type |-> "", title |-> Undefined, description |-> Undefined,
             priority |-> Undefined, accountNumber |-> Undefined,
             customerId |-> Undefined, attachments |-> Undefined]

\* What a ticket system does with a call: it returns an object carrying the
\* identifier ("ok"), returns an object without it ("nokey"), returns
\* undefined ("undef"), throws an Error with message msg ("error"), or
\* throws a value that is not an Error ("nonerror").
TicketReply(kind, id, msg) == [kind |-> kind, id |-> id, msg |-> msg]

\* error instanceof Error ? error.message : 'Unknown error'
ErrorMessageOf(reply) ==
    CASE reply.kind = "error" -> reply.msg
      [] reply.kind = "undef" -> TypeErrorMessage
      [] OTHER                -> "Unknown error"

ReplyFails(reply) == reply.kind \in {"error", "nonerror", "undef"}

ReplyId(reply) == IF reply.kind = "ok" THEN reply.id ELSE "undefined"

\* submitJiraTicket wrapping a failure without naming the system.
submitJiraTicket_Unnamed(reply) ==
    IF ReplyFails(reply)
    THEN [throws |-> TRUE, s |-> "Failed to create ticket: " \o ErrorMessageOf(reply)]
    ELSE [throws |-> FALSE, s |-> "Jira ticket created: " \o ReplyId(reply)]

\* submitJiraTicket: [throws, s], the confirmation or the wrapped message.
submitJiraTicket(reply) ==
    IF ReplyFails(reply)
    THEN [throws |-> TRUE, s |-> "Failed to create Jira ticket: " \o ErrorMessageOf(reply)]
    ELSE [throws |-> FALSE, s |-> "Jira ticket created: " \o ReplyId(reply)]

submitServiceNowTicket(reply) ==
    IF ReplyFails(reply)
    THEN [throws |-> TRUE, s |-> "Failed to create ServiceNow ticket: " \o ErrorMessageOf(reply)]
    ELSE [throws |-> FALSE, s |-> "ServiceNow incident created: " \o ReplyId(reply)]

\* The item built without the partial analysis.
HumanReviewItem_NoPartial(reason, emailContent, missingFields, partialAnalysis) ==
    [reason |-> reason, emailContent |-> emailContent,
     missingFields |-> missingFields, partialAnalysis |-> Null]

\* The HumanReviewItem literal handed to addToHumanReviewQueue.
HumanReviewItem(reason, emailContent, missingFields, partialAnalysis) ==
    [reason |-> reason, emailContent |-> emailContent,
     missingFields |-> missingFields, partialAnalysis |-> partialAnalysis]

\* addToHumanReviewQueue with an assignment in place of push.
addToHumanReviewQueue_Assign(queue, item) == <<item>>

\* addToHumanReviewQueue with unshift in place of push.
addToHumanReviewQueue_Unshift(queue, item) == <<item>> \o queue

\* addToHumanReviewQueue: the queue after the push.
addToHumanReviewQueue(queue, item) == Append(queue, item)

\* ------------------------------------------------------------------------
\* The progress lines of handleSingleEmailAnalysis
\* ------------------------------------------------------------------------

MsgStarting       == "[search] Starting email analysis..."
MsgExtracting     == "[email] Extracting email data and context..."
MsgAnalysisFailed == "[warn] Analysis failed - Unable to extract email data"
MsgQueued         == "[person] Email has been queued for human review"
MsgValidating     == "[search] Validating required fields..."
MsgValidated      == "[ok] All required fields validated"
MsgClassifying    == "[cycle] Classifying request type..."
MsgJiraCreated    == "[ok] Jira ticket created successfully!"
MsgSnowCreated    == "[ok] ServiceNow ticket created successfully!"
MsgNoTicket       == "[warn] Email analysis complete, but no ticket was created"

MsgExtracted(analysis) ==
    "[ok] Email data extracted successfully:\n- Subject: "
        \o JSToString(GetProp(analysis, "subject"))
        \o "\n- Priority: " \o JSToString(GetProp(analysis, "priority"))
        \o "\n- Type: " \o JSToString(GetProp(analysis, "requestType"))

MsgMissing(missingFields) ==
    "[warn] Missing required fields: " \o Join(missingFields, ", ")

MsgCreatingJira(ticketType) ==
    "[clipboard] Creating Jira " \o SplitSecond(ticketType, "-") \o " ticket..."

MsgCreatingSnow(ticketType) ==
    "[clipboard] Creating ServiceNow " \o SplitSecond(ticketType, "-") \o "..."

MsgDetails(system, ticketType, analysis, result) ==
    "\nTicket Details:\n[ticket] Type: " \o system \o " " \o SplitSecond(ticketType, "-")
        \o "\n[memo] Subject: " \o JSToString(GetProp(analysis, "subject"))
        \o "\n[key] ID: " \o SplitSecond(result, ": ")
        \o "\n[chart] Priority: " \o JSToString(GetProp(analysis, "priority"))

MsgErrorCreating(message) == "[x] Error creating ticket: " \o message

\* The reply to an unknown command without the list of commands.
UnknownCommand_Bare == "Unknown command."

\* The strings handleChatCommand returns outside the pipeline.
UnknownCommand == "Unknown command. Available commands: /start"
NoEditorOpen   == "Please open an email file first."
ErrorResult(message) == "Error: " \o message

\* Line 49: the analysis taken from the provider's answer, [throws, v].
ParsedOrThrown(p) == [throws |-> ~p.ok, v |-> p.v]

analysisOf(chatResult) ==
    IF Truthy(chatResult) /\ chatResult # Str("{}")
    THEN ParsedOrThrown(JSONParse(JSToString(chatResult)))
    ELSE [throws |-> FALSE, v |-> Null]

\* The guard of line 53 written as the condition of line 49.
analysisUnusable_AsLine49(analysis, chatResult) ==
    Truthy(analysis) /\ chatResult # Str("{}")

\* Line 53: the guard of the "queue for human review" branch.
analysisUnusable(analysis, chatResult) ==
    ~Truthy(analysis) \/ chatResult = Str("{}")

\* ------------------------------------------------------------------------
\* Inputs: the commands, the editor's text, and what the three external
\* collaborators (file search, analysis provider, ticket systems) answer.
\* ------------------------------------------------------------------------

Commands == {"/start", "/invalid"}

EmailBug ==
    "Subject: Bug Report: Crash\nFrom: a@b.com\n\nAccount Number: ACC123456\nApp crashes on launch."
EmailNoSubject == "From: a@b.com\n\nThis report is incomplete."

Emails == {EmailBug, EmailNoSubject}

AnswerBug ==
    "{\"requestType\":\"Bug Report\",\"priority\":\"high\",\"accountNumber\":\"ACC123456\",\"subject\":\"Bug Report: Crash\",\"content\":\"App crashes on launch.\"}"
AnswerFeature ==
    "{\"requestType\":\"Feature Request\",\"priority\":\"medium\",\"customerId\":\"CUST456\",\"subject\":\"Dark Mode\",\"content\":\"Please add dark mode.\"}"
AnswerSupport ==
    "{\"requestType\":\"Support Request\",\"priority\":\"high\",\"accountNumber\":\"ACC456789\",\"customerId\":\"CUST789\",\"subject\":\"Password Reset Not Working\",\"content\":\"No mail arrives.\"}"
AnswerQuestion ==
    "{\"requestType\":\"Question\",\"priority\":\"low\",\"accountNumber\":\"ACC1\",\"subject\":\"Opening hours\",\"content\":\"When are you open?\"}"
AnswerNoAccount ==
    "{\"requestType\":\"Bug Report\",\"priority\":\"high\",\"accountNumber\":\"\",\"subject\":\"Crash\",\"content\":\"It crashes.\"}"
AnswerOnlyContent == "{\"content\":\"Hello\"}"
AnswerNumericType ==
    "{\"requestType\":7,\"priority\":\"high\",\"accountNumber\":\"ACC1\",\"subject\":\"Seven\"}"
\* An answer that brings an 'attachments' value of its own.
AnswerWithAttachments ==
    "{\"requestType\":\"Question\",\"priority\":\"low\",\"customerId\":\"CUST1\",\"subject\":\"Invoice\",\"content\":\"See the file.\",\"attachments\":\"invoice.exe\"}"
\* An answer whose priority is none of high, medium and low.
AnswerUrgent ==
    "{\"requestType\":\"Support Request\",\"priority\":\"URGENT\",\"customerId\":\"CUST2\",\"subject\":\"Login\",\"content\":\"Please help.\"}"
\* A complete analysis of a reply to the notice of an earlier run.
AnswerReplyToNotice ==
    "{\"requestType\":\"Question\",\"priority\":\"low\",\"customerId\":\"CUST3\",\"subject\":\"Re: Email has been queued for human review\",\"content\":\"Any news?\"}"
AnswerNoJson    == "I could not analyze this email."
AnswerFenced    == "'''json\n{\"requestType\":\"Bug Report\"}\n'''"
AnswerTruncated == "{\"requestType\":\"Bug Report\""

\* What 'vscode.chat.open' resolves to.
ChatResults ==
    {Undefined, Obj(<<>>)}
    \cup {Str(t) : t \in {"", "{}", "null", "5",
                          AnswerBug, AnswerFeature, AnswerSupport, AnswerQuestion,
                          AnswerNoAccount, AnswerOnlyContent, AnswerNumericType,
                          AnswerWithAttachments, AnswerUrgent, AnswerReplyToNotice,
                          AnswerNoJson,
                          AnswerFenced,
                          AnswerTruncated}}

\* A call of an external command resolves to a value ("value"), or rejects
\* with an Error ("error") or with something that is not an Error
\* ("nonerror").
Reply(kind, v, msg) == [kind |-> kind, v |-> v, msg |-> msg]

ChatReplies ==
    {Reply("value", v, "") : v \in ChatResults}
    \cup {Reply("error", Undefined, "Chat model unavailable")}

\* findFiles: the number of files it finds, or a rejection.  More than one
\* file starts a bulk run, which is not part of this specification.
FindFilesReplies ==
    {Reply("value", Num("0"), ""), Reply("value", Num("1"), ""),
     Reply("error", Undefined, "Workspace unavailable")}

JiraReplies ==
    {TicketReply("ok", "PROJ-123", ""), TicketReply("nokey", "", ""),
     TicketReply("undef", "", ""), TicketReply("error", "", "Jira API error"),
     TicketReply("nonerror", "", "")}

ServiceNowReplies ==
    {TicketReply("ok", "INC0001234", ""), TicketReply("nokey", "", ""),
     TicketReply("undef", "", ""), TicketReply("error", "", "ServiceNow API error"),
     TicketReply("nonerror", "", "")}

\* ------------------------------------------------------------------------
\* State
\* ------------------------------------------------------------------------

VARIABLES
    humanReviewQueue,  \* ChatCommandHandler.humanReviewQueue
    pc,                \* where each handleChatCommand call stands
    command,           \* request.command of the call
    emailContent,      \* the text handed to handleSingleEmailAnalysis
    progressMessages,  \* the progress lines of the run
    chatResult,        \* the provider's answer
    analysis,          \* the analysis parsed from it
    ticketType,        \* the classifier's category
    ticket,            \* the ticket handed to the ticket system
    submitResult,      \* what the submitter returned or threw
    returned,          \* the string handleChatCommand resolved to
    trace,             \* history: the stages the run has executed, in order
    queueAtStart,      \* history: the queue when the call started
    fnInput,           \* the analysis a helper is applied to on its own
    fnStage,           \* which helpers have been applied to fnInput
    fnMissing,         \* what validateRequiredFields returned for fnInput
    fnCategory,        \* what classifyTicketType returned for fnInput
    categoriesSeen,    \* history: every category classifyTicketType returned
    parseInput,        \* the text parseEmail is applied to
    parsedEmail,       \* what parseEmail returned for it
    files,             \* the files of a bulk analysis, in input order
    fileIndex,         \* the loop variable i of a bulk analysis
    results,           \* the results array of a bulk analysis
    bulkMessages,      \* the progress lines of handleBulkAnalysis
    commandOutcome,    \* how 'email-analyzer.analyzeBulkEmails' ended
    fileEvents,        \* history: the start and the end of each file's turn
    snapshot,          \* the array a caller got from getHumanReviewQueue
    lastCall           \* history: the last operation on the queue or a snapshot

runVars == <<humanReviewQueue, pc, command, emailContent, progressMessages,
             chatResult, analysis, ticketType, ticket, submitResult, returned,
             trace, queueAtStart>>

fnVars == <<fnInput, fnStage, fnMissing, fnCategory, categoriesSeen>>

parseVars == <<parseInput, parsedEmail>>

bulkVars == <<files, fileIndex, results, bulkMessages, commandOutcome, fileEvents>>

callerVars == <<snapshot, lastCall>>

vars == <<runVars, fnVars, parseVars, bulkVars, callerVars>>

NoSubmit == [throws |-> FALSE, s |-> ""]

\* No call of handleChatCommand has been made.
InitCalls ==
    /\ pc = [r \in Runs |-> "idle"]
    /\ command = [r \in Runs |-> ""]
    /\ emailContent = [r \in Runs |-> ""]
    /\ progressMessages = [r \in Runs |-> <<>>]
    /\ chatResult = [r \in Runs |-> Undefined]
    /\ analysis = [r \in Runs |-> Undefined]
    /\ ticketType = [r \in Runs |-> ""]
    /\ ticket = [r \in Runs |-> NoTicket]
    /\ submitResult = [r \in Runs |-> NoSubmit]
    /\ returned = [r \in Runs |-> ""]
    /\ trace = [r \in Runs |-> <<>>]
    /\ queueAtStart = [r \in Runs |-> <<>>]

\* Line 8: private humanReviewQueue: HumanReviewItem[] = []
InitRuns ==
    /\ humanReviewQueue = <<>>
    /\ InitCalls

\* No helper has been applied on its own.
InitHelpers ==
    /\ fnInput = Undefined
    /\ fnStage = "none"
    /\ fnMissing = <<>>
    /\ fnCategory = ""
    /\ categoriesSeen = {}

NotParsed == [headers |-> Undefined, body |-> Undefined, attachments |-> Undefined]

\* parseEmail has not been called.
NoInput == [hasSubject |-> FALSE, subject |-> "", text |-> ""]

InitParser ==
    /\ parseInput = NoInput
    /\ parsedEmail = NotParsed

NoOutcome == [kind |-> "none"]

\* No bulk analysis has started.
InitBulk ==
    /\ files = <<>>
    /\ fileIndex = 0
    /\ results = <<>>
    /\ bulkMessages = <<>>
    /\ commandOutcome = NoOutcome
    /\ fileEvents = <<>>

\* No caller holds a snapshot of the queue.
InitCaller ==
    /\ snapshot = <<>>
    /\ lastCall = "none"

Init ==
    /\ InitRuns
    /\ InitHelpers
    /\ InitParser
    /\ InitBulk
    /\ InitCaller

\* error instanceof Error ? error.message : 'Unknown error'
RejectionMessage(reply) ==
    IF reply.kind = "error" THEN reply.msg ELSE "Unknown error"

\* The calls of one handler are made one after the other: a call starts
\* when every earlier call has returned.
MayStart(r) == pc[r] = "idle" /\ \A q \in Runs : q < r => pc[q] = "done"

\* handleChatCommand, up to the await of findFiles (lines 10-23).  The locals
\* of the calls that have returned are gone, and so is what they returned:
\* the call that starts is the only one whose locals exist.
HandleChatCommand(r) ==
    /\ MayStart(r)
    /\ \E cmd \in Commands, editorOpen \in BOOLEAN, text \in Emails :
        /\ command' = [q \in Runs |-> IF q = r THEN cmd ELSE ""]
        /\ queueAtStart' = [q \in Runs |-> IF q = r THEN humanReviewQueue ELSE <<>>]
        /\ IF cmd # "/start"
           THEN /\ pc' = [pc EXCEPT ![r] = "done"]
                /\ returned' = [q \in Runs |-> IF q = r THEN UnknownCommand ELSE ""]
                /\ emailContent' = [q \in Runs |-> ""]
           ELSE IF ~editorOpen
           THEN /\ pc' = [pc EXCEPT ![r] = "done"]
                /\ returned' = [q \in Runs |-> IF q = r THEN NoEditorOpen ELSE ""]
                /\ emailContent' = [q \in Runs |-> ""]
           ELSE /\ pc' = [pc EXCEPT ![r] = "findFiles"]
                /\ returned' = [q \in Runs |-> ""]
                /\ emailContent' = [q \in Runs |-> IF q = r THEN text ELSE ""]
    /\ progressMessages' = [q \in Runs |-> <<>>]
    /\ chatResult' = [q \in Runs |-> Undefined]
    /\ analysis' = [q \in Runs |-> Undefined]
    /\ ticketType' = [q \in Runs |-> ""]
    /\ ticket' = [q \in Runs |-> NoTicket]
    /\ submitResult' = [q \in Runs |-> NoSubmit]
    /\ trace' = [q \in Runs |-> <<>>]
    /\ UNCHANGED <<humanReviewQueue, fnVars, parseVars, bulkVars, callerVars>>

\* findFiles returns (lines 23-31): at most one file starts
\* handleSingleEmailAnalysis, which runs to its await of the provider
\* (lines 34-46); a rejection is caught by handleChatCommand.
FindFilesReturns(r) ==
    /\ pc[r] = "findFiles"
    /\ \E reply \in FindFilesReplies :
        IF reply.kind # "value"
        THEN /\ pc' = [pc EXCEPT ![r] = "done"]
             /\ returned' = [returned EXCEPT ![r] = ErrorResult(RejectionMessage(reply))]
             /\ UNCHANGED <<progressMessages, trace>>
        ELSE /\ pc' = [pc EXCEPT ![r] = "awaitChat"]
             /\ progressMessages' =
                    [progressMessages EXCEPT ![r] = <<MsgStarting, MsgExtracting>>]
             /\ trace' = [trace EXCEPT ![r] = Append(@, "analyze")]
             /\ UNCHANGED returned
    /\ UNCHANGED <<humanReviewQueue, command, emailContent, chatResult, analysis,
                   ticketType, ticket, submitResult, queueAtStart, fnVars, parseVars,
                   bulkVars, callerVars>>

\* What the synchronous stretch of handleSingleEmailAnalysis between the
\* provider's answer and the next await (lines 47-96, 104-112, 128-129)
\* leaves behind: the next position, the progress lines, the queue, the
\* analysis, the category, the ticket, the stages executed and, when the
\* run is over, the string handleChatCommand resolves to.
Outcome(nextPc, log, queue, a, type, tkt, stages, result) ==
    [pc |-> nextPc, log |-> log, queue |-> queue, analysis |-> a,
     ticketType |-> type, ticket |-> tkt, stages |-> stages, returned |-> result]

\* An exception leaves handleSingleEmailAnalysis with the progress lines
\* appended so far; the outcome carries the exception's message.
Thrown(message, log, queue, a, stages) ==
    Outcome("thrown", log, queue, a, "", NoTicket, stages, message)

\* handleChatCommand without its catch: what the run threw leaves it.
caught_Rethrows(o) == o

\* Lines 29-31: handleChatCommand catches what handleSingleEmailAnalysis
\* threw and resolves to 'Error: <message>'.
caught(o) ==
    IF o.pc = "thrown"
    THEN [o EXCEPT !.pc = "done", !.returned = ErrorResult(o.returned)]
    ELSE o

\* Every category is handed to ServiceNow.
afterClassify_ToServiceNow(log, queue, a, cls) ==
    IF cls.throws
    THEN Thrown(TypeErrorMessage, log, queue, a, <<"validate", "classify">>)
    ELSE Outcome("awaitServiceNow", log \o <<MsgCreatingSnow(cls.v)>>, queue, a, cls.v,
                 createServiceNowTicket(a, SplitSecond(cls.v, "-")),
                 <<"validate", "classify", "servicenow.createTicket">>, "")

\* Lines 89-112 and 128-129: the category decides the ticket system.
afterClassify(log, queue, a, cls) ==
    IF cls.throws
    THEN Thrown(TypeErrorMessage, log, queue, a, <<"validate", "classify">>)
    ELSE IF StartsWith(cls.v, "jira-")
    THEN Outcome("awaitJira", log \o <<MsgCreatingJira(cls.v)>>, queue, a, cls.v,
                 createJiraTicket(a, SplitSecond(cls.v, "-")),
                 <<"validate", "classify", "jira.createIssue">>, "")
    ELSE IF StartsWith(cls.v, "servicenow-")
    THEN Outcome("awaitServiceNow", log \o <<MsgCreatingSnow(cls.v)>>, queue, a, cls.v,
                 createServiceNowTicket(a, SplitSecond(cls.v, "-")),
                 <<"validate", "classify", "servicenow.createTicket">>, "")
    ELSE Outcome("done", log \o <<MsgNoTicket>>, queue, a, cls.v, NoTicket,
                 <<"validate", "classify">>, Join(log \o <<MsgNoTicket>>, "\n"))

\* The item is queued twice.
queueForReview_Twice(log, queue, a, item, stages) ==
    Outcome("done", log, addToHumanReviewQueue(addToHumanReviewQueue(queue, item), item),
            a, "", NoTicket, stages, Join(log, "\n"))

\* Lines 55-62 and 76-83: the item is queued and the log returned.
queueForReview(log, queue, a, item, stages) ==
    Outcome("done", log, addToHumanReviewQueue(queue, item), a, "", NoTicket,
            stages, Join(log, "\n"))

\* The validator's list is reported but does not stop the run.
afterValidate_SubmitsAnyway(content, log, queue, a, missingFields) ==
    afterClassify(log \o <<MsgValidated, MsgClassifying>>, queue, a,
                  classifyTicketType(a))

\* Lines 74-89: the validator's list decides between the queue and the
\* classifier.
afterValidate(content, log, queue, a, missingFields) ==
    IF Len(missingFields) > 0
    THEN queueForReview(log \o <<MsgMissing(missingFields), MsgQueued>>, queue, a,
                        HumanReviewItem("Missing required fields", content,
                                        missingFields, a),
                        <<"validate", "enqueue">>)
    ELSE afterClassify(log \o <<MsgValidated, MsgClassifying>>, queue, a,
                       classifyTicketType(a))

\* Lines 49-73, from the parsed answer to the validator's call.
afterParse(content, log, queue, chat, parsed) ==
    IF parsed.throws
    THEN Thrown(SyntaxErrorMessage, log, queue, Undefined, <<>>)
    ELSE IF analysisUnusable(parsed.v, chat)
    THEN queueForReview(log \o <<MsgAnalysisFailed, MsgQueued>>, queue, parsed.v,
                        HumanReviewItem("Unable to analyze email", content,
                                        <<"Analysis Failed">>, Null),
                        <<"enqueue">>)
    ELSE IF PropThrows(parsed.v)
    THEN Thrown(TypeErrorMessage, log, queue, parsed.v, <<>>)
    ELSE afterValidate(content, log \o <<MsgExtracted(parsed.v), MsgValidating>>,
                       queue, parsed.v, validateRequiredFields(parsed.v))

afterChat(content, log, queue, chat) ==
    CHOOSE o \in {afterParse(content, log, queue, chat, parsed) :
                      parsed \in {analysisOf(chat)}} : TRUE

\* The provider answers (lines 46-96, 104-112): the run goes on to its next
\* await or to its end.  A rejection of the provider call leaves the run
\* and is caught by handleChatCommand.
ChatAnswers(r, reply) ==
    /\ pc[r] = "awaitChat"
    /\ \E run \in {IF reply.kind = "value"
                    THEN afterChat(emailContent[r], progressMessages[r],
                                   humanReviewQueue, reply.v)
                    ELSE Thrown(RejectionMessage(reply), progressMessages[r],
                                humanReviewQueue, Undefined, <<"chat.rejected">>)} :
        \E o \in {caught(run)} :
           /\ chatResult' = [chatResult EXCEPT ![r] = reply.v]
           /\ pc' = [pc EXCEPT ![r] = o.pc]
           /\ progressMessages' = [progressMessages EXCEPT ![r] = o.log]
           /\ humanReviewQueue' = o.queue
           /\ analysis' = [analysis EXCEPT ![r] = o.analysis]
           /\ ticketType' = [ticketType EXCEPT ![r] = o.ticketType]
           /\ ticket' = [ticket EXCEPT ![r] = o.ticket]
           /\ returned' = [returned EXCEPT ![r] = o.returned]
           /\ trace' = [trace EXCEPT ![r] = @ \o o.stages]
    /\ UNCHANGED <<command, emailContent, submitResult, queueAtStart, fnVars, parseVars,
                   bulkVars, callerVars>>

\* Line 46: what the provider answers is the environment's choice.
ChatReturns(r) == \E reply \in ChatReplies : ChatAnswers(r, reply)

\* The lines of the submitter's outcome alone, the earlier lines dropped.
afterSubmit_OnlyLast(log, system, created, type, a, result) ==
    IF result.throws
    THEN <<MsgErrorCreating(result.s)>>
    ELSE <<created, MsgDetails(system, type, a, result.s)>>

\* Lines 97-103, 115-126: the progress lines after the submitter returned
\* result or threw it.
afterSubmit(log, system, created, type, a, result) ==
    IF result.throws
    THEN log \o <<MsgErrorCreating(result.s)>>
    ELSE log \o <<created, MsgDetails(system, type, a, result.s)>>

\* jira.createIssue answers (lines 96-103, 123-126, 237-245).
JiraAnswers(r, reply) ==
    /\ pc[r] = "awaitJira"
    /\ \E result \in {submitJiraTicket(reply)} :
        \E log \in {afterSubmit(progressMessages[r], "Jira", MsgJiraCreated,
                                 ticketType[r], analysis[r], result)} :
           /\ submitResult' = [submitResult EXCEPT ![r] = result]
           /\ progressMessages' = [progressMessages EXCEPT ![r] = log]
           /\ returned' = [returned EXCEPT ![r] = Join(log, "\n")]
    /\ pc' = [pc EXCEPT ![r] = "done"]
    /\ UNCHANGED <<humanReviewQueue, command, emailContent, chatResult, analysis,
                   ticketType, ticket, trace, queueAtStart, fnVars, parseVars,
                   bulkVars, callerVars>>

\* Line 239: what jira.createIssue answers is the environment's choice.
JiraReturns(r) == \E reply \in JiraReplies : JiraAnswers(r, reply)

\* The confirmation the orchestrator keeps for a ServiceNow ticket: for a
\* category other than servicenow-incident the word 'incident' is replaced
\* by 'ticket' (lines 109-114); a rejection passes through.
snowConfirmation(type, submitted) ==
    IF submitted.throws \/ type = "servicenow-incident" THEN submitted
    ELSE [throws |-> FALSE, s |-> ReplaceFirst(submitted.s, "incident", "ticket")]

\* servicenow.createTicket answers (lines 108-126, 247-255).
ServiceNowAnswers(r, reply) ==
    /\ pc[r] = "awaitServiceNow"
    /\ \E result \in {snowConfirmation(ticketType[r], submitServiceNowTicket(reply))} :
        \E log \in {afterSubmit(progressMessages[r], "ServiceNow", MsgSnowCreated,
                                 ticketType[r], analysis[r], result)} :
           /\ submitResult' = [submitResult EXCEPT ![r] = result]
           /\ progressMessages' = [progressMessages EXCEPT ![r] = log]
           /\ returned' = [returned EXCEPT ![r] = Join(log, "\n")]
    /\ pc' = [pc EXCEPT ![r] = "done"]
    /\ UNCHANGED <<humanReviewQueue, command, emailContent, chatResult, analysis,
                   ticketType, ticket, trace, queueAtStart, fnVars, parseVars,
                   bulkVars, callerVars>>

\* Line 249: what servicenow.createTicket answers is the environment's choice.
ServiceNowReturns(r) == \E reply \in ServiceNowReplies : ServiceNowAnswers(r, reply)

Next ==
    \/ \E r \in Runs : HandleChatCommand(r)
    \/ \E r \in Runs : FindFilesReturns(r)
    \/ \E r \in Runs : ChatReturns(r)
    \/ \E r \in Runs : JiraReturns(r)
    \/ \E r \in Runs : ServiceNowReturns(r)

Spec == Init /\ [][Next]_vars

\* ------------------------------------------------------------------------
\* The helpers on their own: validateRequiredFields and classifyTicketType
\* applied to an analysis drawn from a bounded set of EmailAnalysis values.
\* ------------------------------------------------------------------------

Opt(k, v) == IF v = Undefined THEN <<>> ELSE <<Member(k, v)>>

\* An EmailAnalysis object; an Undefined argument is a field left out.
EmailAnalysis(requestType, priority, accountNumber, customerId, subject, content) ==
    Obj(Opt("requestType", requestType) \o Opt("priority", priority)
        \o Opt("accountNumber", accountNumber) \o Opt("customerId", customerId)
        \o Opt("subject", subject) \o Opt("content", content))

\* Every combination of a required field being left out, empty or filled.
PresenceInputs ==
    {EmailAnalysis(rt, pr, acc, cust, subj, Str("See the attachment."))
        : rt   \in {Undefined, Null, Str(""), Str("Question")},
          pr   \in {Undefined, Str(""), Str("low")},
          acc  \in {Undefined, Str(""), Str("ACC123456")},
          cust \in {Undefined, Str(""), Str("CUST789")},
          subj \in {Undefined, Str(""), Str("Opening hours")}}

RequestTypeTexts ==
    {"Bug Report", "Feature Request", "Support Request", "Question", "BUG REPORT"}

SubjectTexts ==
    {"Opening hours", "New Feature idea", "The Epic", "User story", "Task list",
     "Bug in login", "Reset error"}

ContentTexts ==
    {"When are you open?", "Debugging needed", "The app CRASHES", "A feature we need",
     "Part of an epic", "One more story", "A task for you", "Major Incident",
     "Error 500", "It is broken", "Trouble with login", "The printer is not working",
     "Please reset it", "bug feature epic story task error"}

\* Valid analyses whose texts touch every rule of the classifier.
KeywordInputs ==
    {EmailAnalysis(Str(rt), Str("high"), Str("ACC123456"), Undefined, Str(subj), cont)
        : rt \in RequestTypeTexts, subj \in SubjectTexts,
          cont \in {Undefined} \cup {Str(c) : c \in ContentTexts}}

FnInputs == PresenceInputs \cup KeywordInputs

InitFn ==
    /\ InitRuns
    /\ InitParser
    /\ InitBulk
    /\ InitCaller
    /\ fnInput \in FnInputs
    /\ fnStage = "input"
    /\ fnMissing = <<>>
    /\ fnCategory = ""
    /\ categoriesSeen = {}

\* validateRequiredFields(fnInput)
Validate ==
    /\ fnStage = "input"
    /\ fnMissing' = validateRequiredFields(fnInput)
    /\ fnStage' = "validated"
    /\ UNCHANGED <<runVars, fnInput, fnCategory, categoriesSeen, parseVars, bulkVars,
                   callerVars>>

\* classifyTicketType(fnInput), for an analysis that passed validation
Classify ==
    /\ fnStage = "validated"
    /\ fnMissing = <<>>
    /\ LET category == classifyTicketType(fnInput)
       IN /\ ~category.throws
          /\ fnCategory' = category.v
          /\ categoriesSeen' = categoriesSeen \cup {category.v}
    /\ fnStage' = "classified"
    /\ UNCHANGED <<runVars, fnInput, fnMissing, parseVars, bulkVars, callerVars>>

NextFn == Validate \/ Classify

SpecFn == InitFn /\ [][NextFn]_vars

\* The classifier applied to one validated analysis after the other, with
\* the categories it has returned so far.
CategoryInputs ==
    {EmailAnalysis(Str(rt), Str("high"), Undefined, Str("CUST789"), Str(subj), Str(cont))
        : rt   \in {"Bug Report", "Feature Request", "Question", "Support Request"},
          subj \in {"Opening hours", "The Epic", "User story", "Task list"},
          cont \in {"When are you open?", "Error 500", "A task for you"}}

InitCategories ==
    /\ InitRuns
    /\ InitHelpers
    /\ InitParser
    /\ InitBulk
    /\ InitCaller

ClassifyValidated ==
    \E a \in CategoryInputs :
        LET category == classifyTicketType(a)
        IN /\ validateRequiredFields(a) = <<>>
           /\ ~category.throws
           /\ fnInput' = a
           /\ fnMissing' = <<>>
           /\ fnStage' = "classified"
           /\ fnCategory' = category.v
           /\ categoriesSeen' = categoriesSeen \cup {category.v}
           /\ UNCHANGED <<runVars, parseVars, bulkVars, callerVars>>

NextCategories == ClassifyValidated

SpecCategories == InitCategories /\ [][NextCategories]_vars

\* ------------------------------------------------------------------------
\* parseEmail (extension.ts).  The regular expressions are matched as the
\* engine matches them: greedy runs give characters back, lazy groups grow.
\* ------------------------------------------------------------------------

\* \s, the line terminators ('.' does not match them, '$' with flag m
\* stops before them) and [A-Za-z-].
SpaceChars == {" ", "\t", "\n", "\r"}
LineEnds   == {"\n", "\r"}
KeyChars   == {"-"} \cup {CharAt(UpperChars, i) : i \in 1..26}
                    \cup {CharAt(LowerChars, i) : i \in 1..26}

\* The end of the longest run, starting at p, of characters that are in
\* chars (inside = TRUE) or not in chars (inside = FALSE): the first
\* position from p on whose character ends the run.
RECURSIVE RunEnd(_, _, _, _)
RunEnd(s, p, chars, inside) ==
    IF p > Len(s) \/ (CharAt(s, p) \in chars) # inside THEN p
    ELSE RunEnd(s, p + 1, chars, inside)

RECURSIVE trimEnd(_)
trimEnd(s) ==
    IF s = "" \/ CharAt(s, Len(s)) \notin SpaceChars THEN s
    ELSE trimEnd(SubSeq(s, 1, Len(s) - 1))

\* String.prototype.trim
trim(s) == trimEnd(SubSeq(s, RunEnd(s, 1, SpaceChars, TRUE), Len(s)))

\* Line 253, /^(?<key>[A-Za-z-]+):\s*(?<value>.+)$/gm tried at position p.
\* The key is the run of key characters before a colon at the start of a
\* line.  \s* takes all the white space after the colon, line breaks
\* included, and the value runs from there to the end of that line; when
\* only white space is left, \s* gives back up to the last character that
\* is not a line break, which becomes the value.
headerAt(s, p) ==
    LET colon  == RunEnd(s, p, KeyChars, TRUE)
        spaces == RunEnd(s, colon + 1, SpaceChars, TRUE)
        inLine == {q \in (colon + 1)..(spaces - 1) : CharAt(s, q) \notin LineEnds}
        start  == IF spaces <= Len(s) THEN spaces
                  ELSE IF inLine = {} THEN 0
                  ELSE CHOOSE q \in inLine : \A j \in inLine : j <= q
        end    == RunEnd(s, start, LineEnds, FALSE)
    IN IF /\ (p = 1 \/ CharAt(s, p - 1) \in LineEnds)
          /\ colon > p /\ colon <= Len(s) /\ CharAt(s, colon) = ":"
          /\ start > 0
       THEN [ok |-> TRUE, key |-> SubSeq(s, p, colon - 1),
             value |-> SubSeq(s, start, end - 1), end |-> end]
       ELSE [ok |-> FALSE, key |-> "", value |-> "",
             end |-> RunEnd(s, p, LineEnds, FALSE) + 1]

\* headerSection.matchAll(headerRegex) from position p on: the search goes
\* on where the last match ended, or at the next line when there is no
\* match at p.
RECURSIVE headerMatches(_, _)
headerFrom(s, m) ==
    IF m.ok THEN <<m>> \o headerMatches(s, m.end) ELSE headerMatches(s, m.end)

headerMatches(s, p) == IF p > Len(s) THEN <<>> ELSE headerFrom(s, headerAt(s, p))

\* Line 254 with the subject left unset.
NoHeaders_Unset == [subject |-> Undefined, from |-> Undefined, to |-> Undefined,
                    date |-> Undefined]

\* Line 254: const headers: EmailHeader = { subject: '' }
NoHeaders == [subject |-> Str(""), from |-> Undefined, to |-> Undefined,
              date |-> Undefined]

\* Lines 261-278: the switch over the lower-cased key.
setHeader(headers, key, value) ==
    IF key = "" \/ value = "" THEN headers
    ELSE CASE key = "subject" -> [headers EXCEPT !.subject = Str(value)]
           [] key = "from"    -> [headers EXCEPT !.from = Str(value)]
           [] key = "to"      -> [headers EXCEPT !.to = Str(value)]
           [] key = "date"    -> [headers EXCEPT !.date = Str(value)]
           [] OTHER           -> headers

\* Lines 260-279: the loop over the matches.
RECURSIVE parseHeaders(_, _)
parseHeaders(headers, matches) ==
    IF matches = <<>> THEN headers
    ELSE parseHeaders(setHeader(headers, toLowerCase(matches[1].key), matches[1].value),
                      Tail(matches))

\* \r?\n+ followed by the literal marker, matched at position e: the
\* position after the marker, 0 when there is no match.
separatorEnd(s, e, marker) ==
    LET n == IF e >= 1 /\ e <= Len(s) /\ CharAt(s, e) = "\r" THEN e + 1 ELSE e
        m == RunEnd(s, n, {"\n"}, TRUE)
    IN IF /\ e >= 1 /\ m > n /\ m + Len(marker) - 1 <= Len(s)
          /\ SubSeq(s, m, m + Len(marker) - 1) = marker
       THEN m + Len(marker) ELSE 0

\* What follows the three captures of attachmentRegex (line 283).
FieldMarkers == <<"Content-Type:", "Content:", "--END-ATTACHMENT--">>

\* attachmentRegex from the position p after the colon of its k-th label
\* (Filename:, Content-Type:, Content:): \s* takes the longest white space
\* with which the rest matches, then the lazy capture takes the shortest
\* text after which the rest matches.
RECURSIVE matchFields(_, _, _)
matchFields(s, p, k) ==
    LET spaces == RunEnd(s, p, SpaceChars, TRUE)
        Rest(e) == matchFields(s, separatorEnd(s, e, FieldMarkers[k]), k + 1)
        Ends(w) == {e \in w..(Len(s) + 1) :
                        /\ separatorEnd(s, e, FieldMarkers[k]) > 0
                        /\ (k = 3 \/ Rest(e).ok)}
        starts == {w \in p..spaces : Ends(w) # {}}
        w == CHOOSE i \in starts : \A j \in starts : j <= i
        e == CHOOSE i \in Ends(w) : \A j \in Ends(w) : i <= j
    IN IF p = 0 \/ starts = {} THEN [ok |-> FALSE, caps |-> <<>>, end |-> 0]
       ELSE IF k = 3
       THEN [ok |-> TRUE, caps |-> <<SubSeq(s, w, e - 1)>>,
             end |-> separatorEnd(s, e, FieldMarkers[k])]
       ELSE [ok |-> TRUE, caps |-> <<SubSeq(s, w, e - 1)>> \o Rest(e).caps,
             end |-> Rest(e).end]

\* bodyContent.matchAll(attachmentRegex) from position `from` on: the
\* captures of every match, in order.
RECURSIVE attachmentMatches(_, _)
attachmentFrom(s, i, m) ==
    IF i = 0 THEN <<>>
    ELSE IF ~m.ok THEN attachmentMatches(s, i + 1)
    ELSE <<m.caps>> \o attachmentMatches(s, m.end)

attachmentMatches(s, from) ==
    attachmentFrom(s, IndexOf(s, "--ATTACHMENT--", from),
                   matchFields(s, separatorEnd(s, IndexOf(s, "--ATTACHMENT--", from) + 14,
                                               "Filename:"), 1))

\* ------------------------------------------------------------------------
\* Buffer.from(text, 'base64').toString('utf-8'), line 289.  The decoder
\* never throws: it skips every character outside the base64 alphabets and
\* stops at the first '='; bytes that are not UTF-8 become U+FFFD.
\* ------------------------------------------------------------------------

Base64Chars == "ABCDEFGHIJKLMNOPQRSTUVWXYZabcdefghijklmnopqrstuvwxyz0123456789+/"

\* The six bits of a character of the base64 or the base64url alphabet; -1
\* for any other character.
unbase64(c) ==
    IF c = "-" THEN 62 ELSE IF c = "_" THEN 63 ELSE IndexOf(Base64Chars, c, 1) - 1

RECURSIVE sextets(_, _)

\* The six-bit values of the text from position i up to its first '='.
sextets(s, i) ==
    IF i > Len(s) \/ CharAt(s, i) = "=" THEN <<>>
    ELSE IF unbase64(CharAt(s, i)) < 0 THEN sextets(s, i + 1)
    ELSE <<unbase64(CharAt(s, i))>> \o sextets(s, i + 1)

RECURSIVE bytesOf(_)

\* Four six-bit values give three bytes; of a last group, two values give
\* one byte, three give two, and a single value gives none.
bytesOf(q) ==
    IF Len(q) < 2 THEN <<>>
    ELSE IF Len(q) = 2 THEN <<q[1] * 4 + q[2] \div 16>>
    ELSE IF Len(q) = 3 THEN <<q[1] * 4 + q[2] \div 16, (q[2] % 16) * 16 + q[3] \div 4>>
    ELSE <<q[1] * 4 + q[2] \div 16, (q[2] % 16) * 16 + q[3] \div 4, (q[3] % 4) * 64 + q[4]>>
             \o bytesOf(SubSeq(q, 5, Len(q)))

\* Buffer.from(s, 'base64')
base64Decode(s) == bytesOf(sextets(s, 1))

\* The number of continuation bytes the lead byte c asks for; -1 when c
\* cannot start a character.
utf8Needed(c) ==
    IF c < 128 THEN 0
    ELSE IF c \in 194..223 THEN 1
    ELSE IF c \in 224..239 THEN 2
    ELSE IF c \in 240..244 THEN 3
    ELSE -1

\* The bytes that may follow the lead byte c.
utf8Second(c) ==
    (IF c = 224 THEN 160 ELSE IF c = 240 THEN 144 ELSE 128)
        ..(IF c = 237 THEN 159 ELSE IF c = 244 THEN 143 ELSE 191)

\* How many of the needed continuation bytes follow the lead byte at i.
utf8Found(b, i, needed) ==
    IF needed < 1 \/ i + 1 > Len(b) \/ b[i + 1] \notin utf8Second(b[i]) THEN 0
    ELSE IF needed < 2 \/ i + 2 > Len(b) \/ b[i + 2] \notin 128..191 THEN 1
    ELSE IF needed < 3 \/ i + 3 > Len(b) \/ b[i + 3] \notin 128..191 THEN 2
    ELSE 3

\* The code point of the character of n + 1 bytes at i.
utf8CodePoint(b, i, n) ==
    IF n = 0 THEN b[i]
    ELSE IF n = 1 THEN (b[i] - 192) * 64 + (b[i + 1] - 128)
    ELSE IF n = 2 THEN (b[i] - 224) * 4096 + (b[i + 1] - 128) * 64 + (b[i + 2] - 128)
    ELSE (b[i] - 240) * 262144 + (b[i + 1] - 128) * 4096 + (b[i + 2] - 128) * 64
             + (b[i + 3] - 128)

Printable == " !\"#$%&'()*+,-./0123456789:;<=>?@ABCDEFGHIJKLMNOPQRSTUVWXYZ["

\* The character with code point n as the model writes it: itself for a
\* tab, a line feed, a carriage return and the printable ASCII characters
\* other than the backslash and the backquote, \u{n} for any other.
charOf(n) ==
    IF n = 9 THEN "\t"
    ELSE IF n = 10 THEN "\n"
    ELSE IF n = 13 THEN "\r"
    ELSE IF n \in 32..91 THEN CharAt(Printable, n - 31)
    ELSE IF n \in 93..95 THEN CharAt("]^_", n - 92)
    ELSE IF n \in 97..122 THEN CharAt(LowerChars, n - 96)
    ELSE IF n \in 123..126 THEN CharAt("{|}~", n - 122)
    ELSE "\\u{" \o ToString(n) \o "}"

RECURSIVE utf8Decode(_, _)

\* buffer.toString('utf-8') from byte i on: every maximal part of an
\* ill-formed sequence is replaced by U+FFFD.
utf8Decode(b, i) ==
    IF i > Len(b) THEN ""
    ELSE IF utf8Needed(b[i]) < 0 THEN charOf(65533) \o utf8Decode(b, i + 1)
    ELSE IF utf8Found(b, i, utf8Needed(b[i])) < utf8Needed(b[i])
    THEN charOf(65533) \o utf8Decode(b, i + 1 + utf8Found(b, i, utf8Needed(b[i])))
    ELSE charOf(utf8CodePoint(b, i, utf8Needed(b[i])))
             \o utf8Decode(b, i + 1 + utf8Needed(b[i]))

\* ------------------------------------------------------------------------
\* The parsedContent of a text/csv attachment, lines 295-303: an object as
\* the function from its keys to their values
\* ------------------------------------------------------------------------

RECURSIVE split(_, _)

\* String.prototype.split(sep) with a string separator
split(s, sep) ==
    IF IndexOf(s, sep, 1) = 0 THEN <<s>>
    ELSE <<SubSeq(s, 1, IndexOf(s, sep, 1) - 1)>>
             \o split(SubSeq(s, IndexOf(s, sep, 1) + Len(sep), Len(s)), sep)

\* Lines 298-300: the cells of a line give { [header.trim()]: values[0]?.trim() }
csvItem(cells) ==
    [k |-> trim(cells[1]), v |-> IF Len(cells) > 1 THEN Str(trim(cells[2])) ELSE Undefined]

\* The object that keeps the first line of each header.
csvSpread_KeepsFirst(obj, item) ==
    [k \in DOMAIN obj \cup {item.k} |-> IF k \in DOMAIN obj THEN obj[k] ELSE item.v]

\* Line 302: ({ ...obj, ...item })
csvSpread(obj, item) ==
    [k \in DOMAIN obj \cup {item.k} |-> IF k = item.k THEN item.v ELSE obj[k]]

RECURSIVE csvReduce(_, _)

\* Line 302: reduce, from the empty object
csvReduce(obj, lines) ==
    IF lines = <<>> THEN obj
    ELSE csvReduce(csvSpread(obj, csvItem(split(Head(lines), ","))), Tail(lines))

\* Lines 295-302
parsedContentOf(decodedContent) ==
    csvReduce(<<>>, SelectSeq(split(decodedContent, "\n"), LAMBDA line : trim(line) # ""))

\* Lines 291-311: the attachment literal with its two conditional spreads.
attachmentOf(filename, contentType, decodedContent) ==
    IF contentType = "text/csv"
    THEN [filename |-> filename, contentType |-> contentType, content |-> decodedContent,
          parsedContent |-> parsedContentOf(decodedContent)]
    ELSE IF contentType = "application/pdf"
    THEN [filename |-> filename, contentType |-> contentType, content |-> decodedContent,
          extractedText |-> decodedContent]
    ELSE [filename |-> filename, contentType |-> contentType, content |-> decodedContent]

\* Lines 287-316: the attachment pushed for one match, its content decoded
\* from the third capture, trimmed.  Nothing in the try block throws, so
\* every match gives an attachment.
EmailAttachment(caps) ==
    attachmentOf(caps[1], caps[2], utf8Decode(base64Decode(trim(caps[3])), 1))

\* Line 285: bodyContent.replace(/--ATTACHMENT--[\s\S]*?--END-ATTACHMENT--/g, '')
RECURSIVE removeBlocks(_)
removeBlocks(s) ==
    LET i == IndexOf(s, "--ATTACHMENT--", 1)
        j == IF i = 0 THEN 0 ELSE IndexOf(s, "--END-ATTACHMENT--", i + 14)
    IN IF j = 0 THEN s
       ELSE SubSeq(s, 1, i - 1) \o removeBlocks(SubSeq(s, j + 18, Len(s)))

\* Lines 257, 284, 285 and 318-322: the header section is what precedes the
\* first "\n\n", the body content what follows it.
ParsedEmail(headerSection, bodyContent) ==
    [headers |-> parseHeaders(NoHeaders, headerMatches(headerSection, 1)),
     body |-> IF trim(removeBlocks(bodyContent)) = "" THEN Undefined
              ELSE Str(trim(removeBlocks(bodyContent))),
     attachments |-> [i \in 1..Len(attachmentMatches(bodyContent, 1)) |->
                         EmailAttachment(attachmentMatches(bodyContent, 1)[i])]]

\* parseEmail (lines 251-322)
parseEmail(content) ==
    IF IndexOf(content, "\n\n", 1) = 0 THEN ParsedEmail(content, "")
    ELSE ParsedEmail(SubSeq(content, 1, IndexOf(content, "\n\n", 1) - 1),
                     SubSeq(content, IndexOf(content, "\n\n", 1) + 2, Len(content)))

\* ------------------------------------------------------------------------
\* parseEmail on its own, applied to an email put together from a Subject
\* line, other header lines, a line break convention and a body.
\* ------------------------------------------------------------------------

\* What may follow 'Subject:' on its line.
SubjectValues == {" Hello", "Hello", "   Two words  ", " Re: a: b", " Hi\t", "", " "}

\* The Subject line of an email: its key and what follows the colon.
SubjectHeaders ==
    {[key |-> "Subject", value |-> v] : v \in SubjectValues}
    \cup {[key |-> k, value |-> " Hello"] : k \in {"subject", "SUBJECT"}}

OtherHeaders == {<<>>, <<"From: a@b.com">>, <<"To: x@y.com", "Date: Mon, 1 Jan">>}

AttachmentBlock ==
    "--ATTACHMENT--\nFilename: data.csv\nContent-Type: text/csv\nContent: aSxqCjEsMg==\n--END-ATTACHMENT--"

\* The lines after the blank line.
BodyLines ==
    {<<>>, <<"Hello,", "the app crashes.">>,
     <<"See the file.", AttachmentBlock>>,
     <<AttachmentBlock, "Regards", AttachmentBlock>>,
     <<"Subject: quoted line">>,
     <<"--ATTACHMENT--", "Filename: cut.txt">>}

\* The text of an email: the header lines, a blank line, the body lines.
EmailText(headerLines, bodyLines, eol) ==
    Join(headerLines, eol)
        \o (IF bodyLines = <<>> THEN "" ELSE eol \o eol \o Join(bodyLines, eol))

\* An email with its Subject line before or after the other header lines,
\* and an email without one.
ParseInputs ==
    {[hasSubject |-> TRUE, subject |-> h.value,
      text |-> EmailText(IF first THEN <<h.key \o ":" \o h.value>> \o others
                         ELSE others \o <<h.key \o ":" \o h.value>>, body, eol)]
        : h \in SubjectHeaders, first \in BOOLEAN, others \in OtherHeaders,
          body \in BodyLines, eol \in {"\n", "\r\n"}}
    \cup {[hasSubject |-> FALSE, subject |-> "", text |-> EmailText(others, body, eol)]
        : others \in OtherHeaders, body \in BodyLines, eol \in {"\n", "\r\n"}}

InitParse ==
    /\ InitRuns
    /\ InitHelpers
    /\ InitBulk
    /\ InitCaller
    /\ parseInput \in ParseInputs
    /\ parsedEmail = NotParsed

\* parseEmail(parseInput.text)
ParseEmail ==
    /\ parsedEmail = NotParsed
    /\ parsedEmail' = parseEmail(parseInput.text)
    /\ UNCHANGED <<runVars, fnVars, parseInput, bulkVars, callerVars>>

NextParse == ParseEmail

SpecParse == InitParse /\ [][NextParse]_vars

\* ------------------------------------------------------------------------
\* parseEmail applied to an email whose body carries attachment blocks of
\* several content types and payloads.
\* ------------------------------------------------------------------------

BlockFilenames == {"data.csv", "scan.pdf"}

BlockContentTypes == {"text/csv", "application/pdf", "text/plain", "TEXT/CSV"}

\* Payloads in canonical base64: of "Hi", of a table with a repeated header,
\* of a table with blank lines, padded cells and lines without a value, of
\* the single byte 255 (not UTF-8) and of a check mark (three bytes).
CanonicalPayloads ==
    {"SGk=", "YSwxCmIsMgphLDM=", "IGsgLCB2ICx3Cgp4CiAKazIs", "/w==", "4pyT"}

\* Payloads that are not base64: without padding, broken over two lines,
\* with a character outside the alphabet, and without any character of it.
OtherPayloads == {"SGVsbG8", "SGVs\nbG8=", "SGk*", "!!!"}

Blocks ==
    [filename : BlockFilenames, contentType : BlockContentTypes,
     payload : CanonicalPayloads \cup OtherPayloads]

\* The block every email with two blocks has next to the one that varies.
PdfBlock == [filename |-> "scan.pdf", contentType |-> "application/pdf", payload |-> "SGk="]

BlockText(b) ==
    "--ATTACHMENT--\nFilename: " \o b.filename \o "\nContent-Type: " \o b.contentType
        \o "\nContent: " \o b.payload \o "\n--END-ATTACHMENT--"

\* The email with the given blocks after a line of text.
AttachmentEmail(blocks) ==
    EmailText(<<"Subject: Report", "From: a@b.com">>,
              <<"See the files.">> \o [i \in 1..Len(blocks) |-> BlockText(blocks[i])], "\n")

AttachmentInputs ==
    {[hasSubject |-> TRUE, subject |-> " Report", text |-> AttachmentEmail(blocks),
      blocks |-> blocks]
        : blocks \in {<<b>> : b \in Blocks} \cup {<<PdfBlock, b>> : b \in Blocks}
                         \cup {<<b, PdfBlock>> : b \in Blocks}}

InitAttachments ==
    /\ InitRuns
    /\ InitHelpers
    /\ InitBulk
    /\ InitCaller
    /\ parseInput \in AttachmentInputs
    /\ parsedEmail = NotParsed

SpecAttachments == InitAttachments /\ [][NextParse]_vars

\* ------------------------------------------------------------------------
\* getHumanReviewQueue and what its caller can do with the array it gets.
\* The items of the queue are objects: the i-th item of the queue is
\* referred to by the number i (the queue only grows at its end), and 0
\* refers to an object the caller made.
\* ------------------------------------------------------------------------

\* Length of the queue a snapshot is taken of.
MaxQueue == 2

\* getHumanReviewQueue (lines 262-264): [...this.humanReviewQueue], a new
\* array holding the item objects of the queue.
getHumanReviewQueue(queue) == [i \in 1..Len(queue) |-> i]

\* The items the pipeline queues for the two test emails.
QueuedItems ==
    {HumanReviewItem("Unable to analyze email", EmailNoSubject, <<"Analysis Failed">>, Null),
     HumanReviewItem("Missing required fields", EmailBug, <<AccountLabel>>,
                     JSONParse(AnswerNoAccount).v)}

InitQueue ==
    /\ InitCalls
    /\ InitHelpers
    /\ InitParser
    /\ InitBulk
    /\ InitCaller
    /\ humanReviewQueue \in UNION {[1..n -> QueuedItems] : n \in 0..MaxQueue}

\* const snapshot = handler.getHumanReviewQueue()
GetHumanReviewQueue ==
    /\ snapshot' = getHumanReviewQueue(humanReviewQueue)
    /\ lastCall' = "getHumanReviewQueue"
    /\ UNCHANGED <<runVars, fnVars, parseVars, bulkVars>>

\* snapshot.push(item), snapshot.pop(), snapshot.reverse(): the caller
\* changes the array it holds.
ChangeSnapshot ==
    /\ lastCall # "none"
    /\ \/ /\ Len(snapshot) <= Len(humanReviewQueue)
          /\ snapshot' = Append(snapshot, 0)
          /\ lastCall' = "snapshot.push"
       \/ /\ snapshot # <<>>
          /\ snapshot' = SubSeq(snapshot, 1, Len(snapshot) - 1)
          /\ lastCall' = "snapshot.pop"
       \/ /\ Len(snapshot) > 1
          /\ snapshot' = [i \in 1..Len(snapshot) |-> snapshot[Len(snapshot) + 1 - i]]
          /\ lastCall' = "snapshot.reverse"
    /\ UNCHANGED <<runVars, fnVars, parseVars, bulkVars>>

\* snapshot[k].missingFields.push('Edited'): the caller changes a field of
\* an item of the array it holds, which is the object the queue holds.
ChangeSnapshotItem ==
    /\ \E k \in 1..Len(snapshot) :
        /\ snapshot[k] > 0
        /\ ~Has(humanReviewQueue[snapshot[k]].missingFields, "Edited")
        /\ humanReviewQueue' =
               [humanReviewQueue EXCEPT ![snapshot[k]].missingFields = Append(@, "Edited")]
    /\ lastCall' = "snapshot[k].missingFields.push"
    /\ UNCHANGED <<pc, command, emailContent, progressMessages, chatResult, analysis,
                   ticketType, ticket, submitResult, returned, trace, queueAtStart,
                   snapshot, fnVars, parseVars, bulkVars>>

NextQueue == GetHumanReviewQueue \/ ChangeSnapshot \/ ChangeSnapshotItem

SpecQueue == InitQueue /\ [][NextQueue]_vars

\* ------------------------------------------------------------------------
\* Bulk analysis: handleBulkAnalysis of the chat handler (reached from
\* handleChatCommand when findFiles finds more than one file) and the
\* command 'email-analyzer.analyzeBulkEmails' of the extension.  The run of
\* handleSingleEmailAnalysis for the file at hand is call 1.
\* ------------------------------------------------------------------------

\* Number of files of a bulk analysis.
MaxFiles == 2

FilePath(k) == "/mail/" \o ToString(k) \o ".eml"

\* The files in ascending and in descending order of their names.
FileLists ==
    {[i \in 1..n |-> FilePath(i)] : n \in 2..MaxFiles}
    \cup {[i \in 1..n |-> FilePath(n + 1 - i)] : n \in 2..MaxFiles}

\* What is in a file.
FileContent(path) == IF path = FilePath(1) THEN EmailBug ELSE EmailNoSubject

\* Reading a file gives its content or fails.
ReadFileReplies(path) ==
    {Reply("value", Str(FileContent(path)), ""), Reply("error", Undefined, "File not found")}

\* An analysis that fails validation and whose subject reads like a
\* progress line.
AnswerSubjectLikeLog ==
    "{\"requestType\":\"Question\",\"priority\":\"low\",\"subject\":\"Account created successfully?\",\"content\":\"Is it?\"}"

BulkChatReplies ==
    {Reply("value", Str(t), "") : t \in {AnswerBug, AnswerSupport, AnswerSubjectLikeLog,
                                        "{}", AnswerNoJson, AnswerFenced}}
    \cup {Reply("error", Undefined, "Chat model unavailable")}

BulkTicketReplies(id, message) ==
    {TicketReply("ok", id, ""), TicketReply("error", "", message)}

\* '-'.repeat(40), the rule under a file's progress lines
Rule == "----------------------------------------"

\* Line 140
MsgBulkStart(n) == "[cycle] Starting bulk analysis of " \o ToString(n) \o " emails...\n"

\* Lines 145-146: the i-th of n files is taken up.
MsgFileTurn_Index(i, n, path) ==
    <<"\n[email] Processing email " \o ToString(i) \o " of " \o ToString(n) \o "...",
      "[folder] File: " \o ToString(i)>>

\* Lines 145-146: the i-th of n files is taken up.
MsgFileTurn(i, n, path) ==
    <<"\n[email] Processing email " \o ToString(i) \o " of " \o ToString(n) \o "...",
      "[folder] File: " \o path>>

\* Lines 152 and 154: the line that ends a file's turn.
MsgFileEnd(thrown, message) ==
    IF thrown THEN "[x] Error processing email: " \o message \o "\n" \o Rule
    ELSE "[ok] Email processed successfully\n" \o Rule

\* Lines 158-161
MsgSummary(n, res) ==
    "\n[chart] Summary:\n[ok] Total emails processed: " \o ToString(n)
        \o "\n[ticket] Tickets created: "
        \o ToString(Cardinality({k \in 1..Len(res) :
                                     Includes(res[k].result, "created successfully")}))
        \o "\n[warn] Failed/Queued for review: "
        \o ToString(Cardinality({k \in 1..Len(res) :
                                     ~Includes(res[k].result, "created successfully")}))

\* Lines 143-147 and 158-163: i++ and the loop test after the turn of
\* fs[i + 1]; the next file is taken up, or the summary ends the log.
fileDone(fs, i, log, res) ==
    IF i + 1 < Len(fs)
    THEN [pc |-> "readFile", i |-> i + 1, results |-> res, returned |-> "",
          log |-> log \o MsgFileTurn(i + 2, Len(fs), fs[i + 2])]
    ELSE [pc |-> "done", i |-> i + 1, results |-> res,
          returned |-> Join(log \o <<MsgSummary(Len(fs), res)>>, "\n"),
          log |-> log \o <<MsgSummary(Len(fs), res)>>]

\* The first file that throws ends the loop.
bulkAfterFile_StopsOnThrow(fs, i, log, res, thrown, value) ==
    IF thrown
    THEN [pc |-> "done", i |-> i + 1, results |-> res,
          returned |-> Join(log \o <<MsgFileEnd(thrown, value), MsgSummary(Len(fs), res)>>,
                            "\n"),
          log |-> log \o <<MsgFileEnd(thrown, value), MsgSummary(Len(fs), res)>>]
    ELSE fileDone(fs, i, log \o <<MsgFileEnd(thrown, value)>>,
                  Append(res, [file |-> fs[i + 1], result |-> value]))

\* Lines 148-156: the run for fs[i + 1] returned value, or it threw (or the
\* file could not be read) with the message value.
bulkAfterFile(fs, i, log, res, thrown, value) ==
    fileDone(fs, i, log \o <<MsgFileEnd(thrown, value)>>,
             IF thrown THEN res ELSE Append(res, [file |-> fs[i + 1], result |-> value]))

\* The end of the turn of files[fileIndex + 1] in handleBulkAnalysis.
EndOfFile(thrown, value, event) ==
    \E b \in {bulkAfterFile(files, fileIndex, bulkMessages, results, thrown, value)} :
        /\ bulkMessages' = b.log
        /\ results' = b.results
        /\ fileIndex' = b.i
        /\ pc' = [pc EXCEPT ![1] = b.pc]
        /\ returned' = [returned EXCEPT ![1] = b.returned]
        /\ fileEvents' =
               fileEvents \o <<[file |-> files[fileIndex + 1], event |-> event]>>
                   \o (IF b.pc = "readFile"
                       THEN <<[file |-> files[b.i + 1], event |-> "start"]>> ELSE <<>>)
        /\ UNCHANGED <<files, commandOutcome>>

\* handleChatCommand('/start') with an editor open and findFiles finding
\* more than one file (lines 10-25): handleBulkAnalysis runs to its first
\* readFile (lines 132-149).
HandleBulkAnalysis ==
    /\ pc[1] = "idle"
    /\ \E fs \in FileLists :
        /\ files' = fs
        /\ bulkMessages' = <<MsgBulkStart(Len(fs))>> \o MsgFileTurn(1, Len(fs), fs[1])
        /\ fileEvents' = <<[file |-> fs[1], event |-> "start"]>>
    /\ fileIndex' = 0
    /\ results' = <<>>
    /\ pc' = [pc EXCEPT ![1] = "readFile"]
    /\ command' = [command EXCEPT ![1] = "/start"]
    /\ UNCHANGED <<humanReviewQueue, emailContent, progressMessages, chatResult, analysis,
                   ticketType, ticket, submitResult, returned, trace, queueAtStart,
                   commandOutcome, fnVars, parseVars, callerVars>>

\* readFile answers (lines 149-150, 153-155): handleSingleEmailAnalysis
\* starts on the content and runs to its await of the provider (lines
\* 34-46), or the file's turn ends in the catch.
ReadFileReturns ==
    /\ pc[1] = "readFile"
    /\ \E reply \in ReadFileReplies(files[fileIndex + 1]) :
        IF reply.kind = "value"
        THEN /\ pc' = [pc EXCEPT ![1] = "awaitChat"]
             /\ emailContent' = [emailContent EXCEPT ![1] = reply.v.s]
             /\ progressMessages' =
                    [progressMessages EXCEPT ![1] = <<MsgStarting, MsgExtracting>>]
             /\ trace' = [trace EXCEPT ![1] = <<"analyze">>]
             /\ fileEvents' =
                    Append(fileEvents, [file |-> files[fileIndex + 1], event |-> "run"])
             /\ UNCHANGED <<files, fileIndex, results, bulkMessages, commandOutcome,
                            returned>>
        ELSE /\ EndOfFile(TRUE, RejectionMessage(reply), "unreadable")
             /\ emailContent' = [emailContent EXCEPT ![1] = ""]
             /\ progressMessages' = [progressMessages EXCEPT ![1] = <<>>]
             /\ trace' = [trace EXCEPT ![1] = <<>>]
    /\ chatResult' = [chatResult EXCEPT ![1] = Undefined]
    /\ analysis' = [analysis EXCEPT ![1] = Undefined]
    /\ ticketType' = [ticketType EXCEPT ![1] = ""]
    /\ ticket' = [ticket EXCEPT ![1] = NoTicket]
    /\ submitResult' = [submitResult EXCEPT ![1] = NoSubmit]
    /\ UNCHANGED <<humanReviewQueue, command, queueAtStart, fnVars, parseVars, callerVars>>

\* How the run of a file ended, for the history.
RunEvent(o) ==
    IF o.pc = "thrown" THEN "threw"
    ELSE IF Has(o.stages, "enqueue") THEN "queued" ELSE "no ticket"

\* The provider answers the run of the file at hand (lines 46-96, 104-112):
\* the run goes on to its ticket call, or it ends and with it the file's
\* turn (lines 150-156).
BulkChatReturns ==
    /\ pc[1] = "awaitChat"
    /\ \E reply \in BulkChatReplies :
        \E o \in {IF reply.kind = "value"
                  THEN afterChat(emailContent[1], progressMessages[1],
                                 humanReviewQueue, reply.v)
                  ELSE Thrown(RejectionMessage(reply), progressMessages[1],
                              humanReviewQueue, Undefined, <<"chat.rejected">>)} :
           /\ chatResult' = [chatResult EXCEPT ![1] = reply.v]
           /\ progressMessages' = [progressMessages EXCEPT ![1] = o.log]
           /\ humanReviewQueue' = o.queue
           /\ analysis' = [analysis EXCEPT ![1] = o.analysis]
           /\ ticketType' = [ticketType EXCEPT ![1] = o.ticketType]
           /\ ticket' = [ticket EXCEPT ![1] = o.ticket]
           /\ trace' = [trace EXCEPT ![1] = @ \o o.stages]
           /\ IF o.pc \in {"awaitJira", "awaitServiceNow"}
              THEN /\ pc' = [pc EXCEPT ![1] = o.pc]
                   /\ UNCHANGED <<bulkVars, returned>>
              ELSE EndOfFile(o.pc = "thrown", o.returned, RunEvent(o))
    /\ UNCHANGED <<command, emailContent, submitResult, queueAtStart, fnVars,
                   parseVars, callerVars>>

\* The ticket system answers the run of the file at hand (lines 96-126):
\* the run returns its log, and the file's turn ends (lines 150-152).
BulkTicketReturns(system, created, result) ==
    \E log \in {afterSubmit(progressMessages[1], system, created, ticketType[1],
                            analysis[1], result)} :
        /\ submitResult' = [submitResult EXCEPT ![1] = result]
        /\ progressMessages' = [progressMessages EXCEPT ![1] = log]
        /\ \E text \in {Join(log, "\n")} :
               EndOfFile(FALSE, text, IF result.throws THEN "failed" ELSE "created")
        /\ UNCHANGED <<humanReviewQueue, command, emailContent, chatResult, analysis,
                       ticketType, ticket, trace, queueAtStart, fnVars, parseVars,
                       callerVars>>

BulkJiraReturns ==
    /\ pc[1] = "awaitJira"
    /\ \E reply \in BulkTicketReplies("PROJ-123", "Jira API error") :
        BulkTicketReturns("Jira", MsgJiraCreated, submitJiraTicket(reply))

BulkServiceNowReturns ==
    /\ pc[1] = "awaitServiceNow"
    /\ \E reply \in BulkTicketReplies("INC0001234", "ServiceNow API error") :
        BulkTicketReturns("ServiceNow", MsgSnowCreated,
                          snowConfirmation(ticketType[1], submitServiceNowTicket(reply)))

\* ------------------------------------------------------------------------
\* The command 'email-analyzer.analyzeBulkEmails' and analyzeEmail
\* ------------------------------------------------------------------------

\* response.match(/'''json\n([\s\S]*?)\n'''/) || response.match(/\{[\s\S]*\}/)
\* and then jsonMatch[1] || jsonMatch[0]: the text handed to JSON.parse, ""
\* when neither expression matches.
jsonMatch(response) ==
    LET open   == IndexOf(response, "'''json\n", 1)
        close  == IF open = 0 THEN 0 ELSE IndexOf(response, "\n'''", open + 8)
        first  == IndexOf(response, "{", 1)
        braces == {i \in (first + 1)..Len(response) : CharAt(response, i) = "}"}
    IN IF close > open + 8 THEN SubSeq(response, open + 8, close - 1)
       ELSE IF close > 0 THEN SubSeq(response, open, close + 3)
       ELSE IF first > 0 /\ braces # {}
            THEN SubSeq(response, first, CHOOSE i \in braces : \A j \in braces : j <= i)
       ELSE ""

Rejected(message) == [throws |-> TRUE, message |-> message]

\* Lines 370-372: the parsed answer with the attachments of the email put
\* in place of any 'attachments' member of its own; the assignment throws
\* on a value that is not an object.
analysisWith(p, attachments) ==
    IF ~p.ok THEN Rejected(SyntaxErrorMessage)
    ELSE IF p.v.t \notin {"object", "array"} THEN Rejected(TypeErrorMessage)
    ELSE [throws |-> FALSE,
          v |-> [fields |-> SelectSeq(p.v.m, LAMBDA e : e.k # "attachments"),
                 attachments |-> attachments]]

\* analyzeEmail, from the answer of 'vscode.chat.open' on (lines 359-376).
analyzeEmail(reply, parsed) ==
    IF reply.kind # "value"
    THEN Rejected(IF reply.kind = "error" THEN reply.msg
                  ELSE "Unknown error during analysis")
    ELSE IF ~Truthy(reply.v) \/ reply.v.t # "string"
    THEN Rejected("Invalid response from chat model")
    ELSE IF jsonMatch(reply.v.s) = "" THEN Rejected("No JSON found in response")
    ELSE analysisWith(JSONParse(jsonMatch(reply.v.s)), parsed.attachments)

\* Lines 224-227: the command shows the error and throws it again.
CommandFailed(message) ==
    [kind |-> "rejected", shown |-> "Error analyzing emails: " \o message,
     message |-> message]

\* The command is called with the files uris (lines 205-214): without files
\* it shows an error and returns nothing, otherwise it opens the first.
AnalyzeBulkEmails ==
    /\ pc[1] = "idle"
    /\ \E uris \in FileLists \cup {<<>>} :
        /\ files' = uris
        /\ IF uris = <<>>
           THEN /\ commandOutcome' =
                       [kind |-> "resolved", shown |-> "No files selected for bulk analysis.",
                        value |-> Undefined]
                /\ pc' = [pc EXCEPT ![1] = "done"]
                /\ fileEvents' = <<>>
           ELSE /\ commandOutcome' = NoOutcome
                /\ pc' = [pc EXCEPT ![1] = "openTextDocument"]
                /\ fileEvents' = <<[file |-> uris[1], event |-> "start"]>>
    /\ fileIndex' = 0
    /\ results' = <<>>
    /\ command' = [command EXCEPT ![1] = "email-analyzer.analyzeBulkEmails"]
    /\ UNCHANGED <<humanReviewQueue, emailContent, progressMessages, chatResult, analysis,
                   ticketType, ticket, submitResult, returned, trace, queueAtStart,
                   bulkMessages, fnVars, parseVars, callerVars>>

\* openTextDocument answers (lines 214-217, 224-227): the email is parsed
\* and analyzeEmail runs to its await of the provider, or the command ends
\* in its catch.
OpenTextDocumentReturns ==
    /\ pc[1] = "openTextDocument"
    /\ \E reply \in ReadFileReplies(files[fileIndex + 1]) :
        IF reply.kind = "value"
        THEN /\ emailContent' = [emailContent EXCEPT ![1] = reply.v.s]
             /\ parsedEmail' = parseEmail(reply.v.s)
             /\ pc' = [pc EXCEPT ![1] = "awaitAnalysis"]
             /\ fileEvents' =
                    Append(fileEvents, [file |-> files[fileIndex + 1], event |-> "run"])
             /\ UNCHANGED commandOutcome
        ELSE /\ commandOutcome' = CommandFailed(RejectionMessage(reply))
             /\ pc' = [pc EXCEPT ![1] = "done"]
             /\ fileEvents' = Append(fileEvents, [file |-> files[fileIndex + 1],
                                                  event |-> "unreadable"])
             /\ UNCHANGED <<emailContent, parsedEmail>>
    /\ UNCHANGED <<humanReviewQueue, command, progressMessages, chatResult, analysis,
                   ticketType, ticket, submitResult, returned, trace, queueAtStart,
                   files, fileIndex, results, bulkMessages, parseInput, fnVars,
                   callerVars>>

\* The provider answers analyzeEmail (lines 217-227, 359-376): the analysis
\* is pushed and the next file opened or the results returned, or the
\* command ends in its catch.
AnalyzeEmailReturns ==
    /\ pc[1] = "awaitAnalysis"
    /\ \E reply \in BulkChatReplies :
        \E a \in {analyzeEmail(reply, parsedEmail)} :
           /\ chatResult' = [chatResult EXCEPT ![1] = reply.v]
           /\ IF a.throws
              THEN /\ commandOutcome' = CommandFailed(a.message)
                   /\ pc' = [pc EXCEPT ![1] = "done"]
                   /\ fileEvents' = Append(fileEvents, [file |-> files[fileIndex + 1],
                                                        event |-> "threw"])
                   /\ UNCHANGED <<results, fileIndex>>
              ELSE /\ results' = Append(results, [file |-> files[fileIndex + 1],
                                                  result |-> a.v])
                   /\ fileIndex' = fileIndex + 1
                   /\ IF fileIndex + 1 < Len(files)
                      THEN /\ pc' = [pc EXCEPT ![1] = "openTextDocument"]
                           /\ fileEvents' =
                                  fileEvents
                                      \o <<[file |-> files[fileIndex + 1], event |-> "analyzed"],
                                           [file |-> files[fileIndex + 2], event |-> "start"]>>
                           /\ UNCHANGED commandOutcome
                      ELSE /\ pc' = [pc EXCEPT ![1] = "done"]
                           /\ fileEvents' = Append(fileEvents,
                                                   [file |-> files[fileIndex + 1],
                                                    event |-> "analyzed"])
                           /\ commandOutcome' =
                                  [kind |-> "resolved", shown |-> "", value |-> results']
    /\ UNCHANGED <<humanReviewQueue, command, emailContent, progressMessages, analysis,
                   ticketType, ticket, submitResult, returned, trace, queueAtStart,
                   files, bulkMessages, parseVars, fnVars, callerVars>>

NextBulk ==
    \/ HandleBulkAnalysis
    \/ ReadFileReturns
    \/ BulkChatReturns
    \/ BulkJiraReturns
    \/ BulkServiceNowReturns
    \/ AnalyzeBulkEmails
    \/ OpenTextDocumentReturns
    \/ AnalyzeEmailReturns

SpecBulk == Init /\ [][NextBulk]_vars

\* ------------------------------------------------------------------------
\* handleChatCommand with both branches of line 24: the first call finds
\* several files and runs handleBulkAnalysis, or every call finds at most
\* one and runs handleSingleEmailAnalysis on the editor's text.
\* ------------------------------------------------------------------------

\* Line 24: selectedFiles.length > 1 held for the call.
SeveralFiles == files # <<>>

NextChat ==
    \/ ~SeveralFiles /\ (\E r \in Runs : HandleChatCommand(r))
    \/ ~SeveralFiles /\ (\E r \in Runs : FindFilesReturns(r))
    \/ ~SeveralFiles /\ (\E r \in Runs : ChatReturns(r))
    \/ ~SeveralFiles /\ (\E r \in Runs : JiraReturns(r))
    \/ ~SeveralFiles /\ (\E r \in Runs : ServiceNowReturns(r))
    \/ HandleBulkAnalysis
    \/ SeveralFiles /\ ReadFileReturns
    \/ SeveralFiles /\ BulkChatReturns
    \/ SeveralFiles /\ BulkJiraReturns
    \/ SeveralFiles /\ BulkServiceNowReturns

SpecChat == Init /\ [][NextChat]_vars

\* The continuation of an await: the call that a run waits for returns or
\* throws.
ExternalCallReturns ==
    \/ ~SeveralFiles /\ (\E r \in Runs : FindFilesReturns(r))
    \/ ~SeveralFiles /\ (\E r \in Runs : ChatReturns(r))
    \/ ~SeveralFiles /\ (\E r \in Runs : JiraReturns(r))
    \/ ~SeveralFiles /\ (\E r \in Runs : ServiceNowReturns(r))
    \/ SeveralFiles /\ ReadFileReturns
    \/ SeveralFiles /\ BulkChatReturns
    \/ SeveralFiles /\ BulkJiraReturns
    \/ SeveralFiles /\ BulkServiceNowReturns

\* Every external call that is pending eventually returns or throws.
\* Nothing obliges a user to issue a command.
FairSpecChat == SpecChat /\ WF_vars(ExternalCallReturns)

\* ------------------------------------------------------------------------
\* Calls of handleChatCommand('/start') on one handler that do not wait for
\* each other: a call starts while others stand at an await, and the
\* continuations of the calls run in any order.  Each call has its own
\* email, so that an item of the queue tells which call queued it.
\* ------------------------------------------------------------------------

\* The text in the editor when call r starts.
EmailOf(r) ==
    IF r = 1 THEN EmailBug
    ELSE IF r = 2 THEN EmailNoSubject
    ELSE "Subject: Mail " \o ToString(r) \o "\n\nHello."

InterleavedChatReplies ==
    {Reply("value", Str(t), "") : t \in {"{}", AnswerOnlyContent, AnswerBug, AnswerSupport}}
    \cup {Reply("error", Undefined, "Chat model unavailable")}

\* Lines 10-23: the call runs to its await of findFiles; its locals are its
\* own, the queue is the handler's.
StartChatCommand(r) ==
    /\ pc[r] = "idle"
    /\ pc' = [pc EXCEPT ![r] = "findFiles"]
    /\ command' = [command EXCEPT ![r] = "/start"]
    /\ emailContent' = [emailContent EXCEPT ![r] = EmailOf(r)]
    /\ queueAtStart' = [queueAtStart EXCEPT ![r] = humanReviewQueue]
    /\ UNCHANGED <<humanReviewQueue, progressMessages, chatResult, analysis, ticketType,
                   ticket, submitResult, returned, trace, fnVars, parseVars, bulkVars,
                   callerVars>>

NextInterleaved ==
    \/ \E r \in Runs : StartChatCommand(r)
    \/ \E r \in Runs : FindFilesReturns(r)
    \/ \E r \in Runs : \E reply \in InterleavedChatReplies : ChatAnswers(r, reply)
    \/ \E r \in Runs : \E reply \in BulkTicketReplies("PROJ-123", "Jira API error") :
           JiraAnswers(r, reply)
    \/ \E r \in Runs : \E reply \in BulkTicketReplies("INC0001234", "ServiceNow API error") :
           ServiceNowAnswers(r, reply)

SpecInterleaved == Init /\ [][NextInterleaved]_vars

\* ------------------------------------------------------------------------
\* The ticket builders on their own: createJiraTicket and
\* createServiceNowTicket applied to an analysis and a category, as lines
\* 93-107 apply them.
\* ------------------------------------------------------------------------

\* The values classifyTicketType returns (lines 190-209).
TicketCategories ==
    {"jira-bug", "jira-feature", "jira-epic", "jira-story", "jira-task",
     "servicenow-incident", "servicenow-request"}

\* Analyses with each field a ticket takes over left out or filled, the
\* subject also null or empty.
TicketInputs ==
    {Obj(Opt("priority", pr) \o Opt("accountNumber", acc) \o Opt("customerId", cust)
         \o Opt("subject", subj) \o Opt("content", cont) \o Opt("attachments", att))
        : pr   \in {Undefined, Str("high")},
          acc  \in {Undefined, Str("ACC123456")},
          cust \in {Undefined, Str("CUST789")},
          subj \in {Undefined, Null, Str(""), Str("Login fails")},
          cont \in {Undefined, Str("The login page shows an error.")},
          att  \in {Undefined, Str("log.txt")}}

InitTickets ==
    /\ InitRuns
    /\ InitParser
    /\ InitBulk
    /\ InitCaller
    /\ fnInput \in TicketInputs
    /\ fnCategory \in TicketCategories
    /\ fnStage = "input"
    /\ fnMissing = <<>>
    /\ categoriesSeen = {}

\* Lines 93-95: createJiraTicket(analysis, ticketType.split('-')[1])
CreateJiraTicket ==
    /\ fnStage = "input"
    /\ StartsWith(fnCategory, "jira-")
    /\ ticket' = [ticket EXCEPT ![1] = createJiraTicket(fnInput, SplitSecond(fnCategory, "-"))]
    /\ fnStage' = "jira"
    /\ UNCHANGED <<humanReviewQueue, command, emailContent, progressMessages, chatResult,
                   analysis, ticketType, submitResult, returned, trace, pc, queueAtStart,
                   fnInput, fnMissing, fnCategory, categoriesSeen, parseVars, bulkVars,
                   callerVars>>

\* Lines 104-107: createServiceNowTicket(analysis, ticketType.split('-')[1])
CreateServiceNowTicket ==
    /\ fnStage = "input"
    /\ StartsWith(fnCategory, "servicenow-")
    /\ ticket' = [ticket EXCEPT ![1] =
                      createServiceNowTicket(fnInput, SplitSecond(fnCategory, "-"))]
    /\ fnStage' = "servicenow"
    /\ UNCHANGED <<humanReviewQueue, command, emailContent, progressMessages, chatResult,
                   analysis, ticketType, submitResult, returned, trace, pc, queueAtStart,
                   fnInput, fnMissing, fnCategory, categoriesSeen, parseVars, bulkVars,
                   callerVars>>

NextTickets == CreateJiraTicket \/ CreateServiceNowTicket

SpecTickets == InitTickets /\ [][NextTickets]_vars

\* ------------------------------------------------------------------------
\* The command 'email-analyzer.analyzeEmail' of the extension (call 1), and
\* analyzeEmail of emailAnalyzer.ts (call 2)
\* ------------------------------------------------------------------------

\* The email of the test 'Handle invalid email without subject'.
EmailTestNoSubject ==
    "From: test@example.com\nTo: support@company.com\n\nTest content without subject line."

EmailWithAttachment ==
    "Subject: Report\nFrom: a@b.com\n\nSee the file.\n--ATTACHMENT--\nFilename: a.txt\nContent-Type: text/plain\nContent: SGk=\n--END-ATTACHMENT--"

\* The text of the active editor.
EditorTexts == {EmailBug, EmailNoSubject, EmailTestNoSubject, EmailWithAttachment}

\* An answer in the format the prompt asks for.
AnswerComplete ==
    "{\"requestType\":\"Bug Report\",\"priority\":\"high\",\"keyPoints\":[],\"actionItems\":[],\"accountNumber\":\"ACC123456\",\"additionalFields\":{}}"

\* An answer with words around its JSON and a second pair of braces.
AnswerWithRemark ==
    "Here it is: {\"requestType\":\"Question\",\"priority\":\"low\"} (fields in {braces} are guesses)"

\* What 'vscode.chat.open' resolves to for analyzeEmail, or its rejection.
AnalysisReplies ==
    {Reply("value", v, "") : v \in {Undefined, Obj(<<>>)}}
    \cup {Reply("value", Str(t), "")
            : t \in {"", "{}", AnswerComplete, AnswerBug, AnswerWithAttachments,
                     AnswerWithRemark, AnswerNoJson, AnswerTruncated, AnswerFenced,
                     "'''json\n\n'''", "'''json\n5\n'''", "'''json\n{}\n''' or {}",
                     "{\"requestType\":}"}}
    \cup {Reply("error", Undefined, "Chat model unavailable"),
          Reply("nonerror", Undefined, "")}

\* displayAnalysis (lines 379-440) builds the page from the analysis: it
\* throws a TypeError unless priority is a string, keyPoints and actionItems
\* are arrays and additionalFields is neither missing nor null.
displayAnalysis(a) ==
    IF /\ \E i \in 1..Len(a.fields) : a.fields[i].k = "priority" /\ a.fields[i].t = "string"
       /\ \A k \in {"keyPoints", "actionItems"} :
              \E i \in 1..Len(a.fields) : a.fields[i].k = k /\ a.fields[i].t = "array"
       /\ \E i \in 1..Len(a.fields) :
              /\ a.fields[i].k = "additionalFields"
              /\ a.fields[i].t \notin {"undefined", "null"}
    THEN [throws |-> FALSE, message |-> ""]
    ELSE [throws |-> TRUE, message |-> TypeErrorMessage]

\* How the command ended: it resolves to undefined in every case; shown is
\* the error message it showed, analyzed what analyzeEmail gave it,
\* displayed whether the page of the analysis was built.
CommandEnded(shown, analyzed, displayed) ==
    [kind |-> "resolved", value |-> Undefined, shown |-> shown, analyzed |-> analyzed,
     displayed |-> displayed]

NotAnalyzed == [throws |-> FALSE, v |-> Undefined]

\* Lines 199-201: the catch of the command shows the error.
MsgErrorAnalyzing(message) == "Error analyzing email: " \o message

\* The command is run (lines 182-197): without an editor it shows an error,
\* without a subject it throws into its own catch, otherwise analyzeEmail
\* runs to its await of the provider.
AnalyzeEmailCommand ==
    /\ pc[1] = "idle"
    /\ command' = [command EXCEPT ![1] = "email-analyzer.analyzeEmail"]
    /\ \/ /\ commandOutcome' =
                 CommandEnded("Please open an email file first.", NotAnalyzed, FALSE)
          /\ pc' = [pc EXCEPT ![1] = "done"]
          /\ UNCHANGED <<emailContent, parsedEmail, trace>>
       \/ \E text \in EditorTexts :
            /\ emailContent' = [emailContent EXCEPT ![1] = text]
            /\ parsedEmail' = parseEmail(text)
            /\ IF ~Truthy(parseEmail(text).headers.subject)
               THEN /\ commandOutcome' =
                           CommandEnded(MsgErrorAnalyzing("Email subject is mandatory"),
                                        NotAnalyzed, FALSE)
                    /\ pc' = [pc EXCEPT ![1] = "done"]
                    /\ UNCHANGED trace
               ELSE /\ pc' = [pc EXCEPT ![1] = "awaitAnalysis"]
                    /\ trace' = [trace EXCEPT ![1] = <<"analyze">>]
                    /\ UNCHANGED commandOutcome
    /\ UNCHANGED <<humanReviewQueue, progressMessages, chatResult, analysis, ticketType,
                   ticket, submitResult, returned, queueAtStart, files, fileIndex, results,
                   bulkMessages, fileEvents, parseInput, fnVars, callerVars>>

\* The provider answers analyzeEmail (lines 197-201, 359-376): the analysis
\* is displayed, or the catch of the command shows the error.
AnalyzeEmailCommandReturns ==
    /\ pc[1] = "awaitAnalysis"
    /\ \E reply \in AnalysisReplies :
        \E a \in {analyzeEmail(reply, parsedEmail)} :
           /\ chatResult' = [chatResult EXCEPT ![1] = reply.v]
           /\ trace' = [trace EXCEPT ![1] =
                            IF reply.kind = "value" THEN @ ELSE Append(@, "chat.rejected")]
           /\ commandOutcome' =
                  IF a.throws THEN CommandEnded(MsgErrorAnalyzing(a.message), a, FALSE)
                  ELSE IF displayAnalysis(a.v).throws
                  THEN CommandEnded(MsgErrorAnalyzing(displayAnalysis(a.v).message), a, FALSE)
                  ELSE CommandEnded("", a, TRUE)
    /\ pc' = [pc EXCEPT ![1] = "done"]
    /\ UNCHANGED <<humanReviewQueue, command, emailContent, progressMessages, analysis,
                   ticketType, ticket, submitResult, returned, queueAtStart,
                   files, fileIndex, results, bulkMessages, fileEvents, parseVars, fnVars,
                   callerVars>>

\* analyzeEmail of emailAnalyzer.ts, from the answer of 'vscode.chat.open'
\* on (lines 34-50): the parsed JSON is the analysis.
analyzeEmailContent(reply) ==
    IF reply.kind # "value"
    THEN Rejected(IF reply.kind = "error" THEN reply.msg
                  ELSE "Unknown error during analysis")
    ELSE IF ~Truthy(reply.v) \/ reply.v.t # "string"
    THEN Rejected("Invalid response from chat model")
    ELSE IF jsonMatch(reply.v.s) = "" THEN Rejected("No JSON found in response")
    ELSE IF ~JSONParse(jsonMatch(reply.v.s)).ok THEN Rejected(SyntaxErrorMessage)
    ELSE [throws |-> FALSE, v |-> JSONParse(jsonMatch(reply.v.s)).v]

\* analyzeEmail(emailContent) of emailAnalyzer.ts is called and runs to its
\* await of the provider (lines 4-34).
AnalyzeEmailContent ==
    /\ pc[2] = "idle"
    /\ \E text \in EditorTexts : emailContent' = [emailContent EXCEPT ![2] = text]
    /\ pc' = [pc EXCEPT ![2] = "awaitAnalysis"]
    /\ trace' = [trace EXCEPT ![2] = <<"analyze">>]
    /\ UNCHANGED <<humanReviewQueue, command, progressMessages, chatResult, analysis,
                   ticketType, ticket, submitResult, returned, queueAtStart, fnVars,
                   parseVars, bulkVars, callerVars>>

\* The provider answers it (lines 34-50): the call resolves to the analysis
\* or rejects with the error.
AnalyzeEmailContentReturns ==
    /\ pc[2] = "awaitAnalysis"
    /\ \E reply \in AnalysisReplies :
        \E a \in {analyzeEmailContent(reply)} :
           /\ chatResult' = [chatResult EXCEPT ![2] = reply.v]
           /\ trace' = [trace EXCEPT ![2] =
                            IF reply.kind = "value" THEN @ ELSE Append(@, "chat.rejected")]
           /\ IF a.throws
              THEN /\ pc' = [pc EXCEPT ![2] = "thrown"]
                   /\ returned' = [returned EXCEPT ![2] = a.message]
                   /\ UNCHANGED analysis
              ELSE /\ pc' = [pc EXCEPT ![2] = "done"]
                   /\ analysis' = [analysis EXCEPT ![2] = a.v]
                   /\ UNCHANGED returned
    /\ UNCHANGED <<humanReviewQueue, command, emailContent, progressMessages, ticketType,
                   ticket, submitResult, queueAtStart, fnVars, parseVars, bulkVars,
                   callerVars>>

NextCommand ==
    \/ AnalyzeEmailCommand
    \/ AnalyzeEmailCommandReturns
    \/ AnalyzeEmailContent
    \/ AnalyzeEmailContentReturns

SpecCommand == Init /\ [][NextCommand]_vars

\* ------------------------------------------------------------------------
\* Properties
\* ------------------------------------------------------------------------

\* The run has left handleChatCommand.
Done(r) == pc[r] = "done"

\* The provider has answered the run (its call did not reject).
Answered(r) == Has(trace[r], "analyze") /\ pc[r] # "awaitChat" /\ ~Has(trace[r], "chat.rejected")

\* The run ended in QueuedForReview: its last progress line is the queued
\* notice, which the returned log ends with, and exactly one item was
\* appended to the queue the call started with.
QueuedForReview(r) ==
    /\ Done(r)
    /\ progressMessages[r] # <<>>
    /\ progressMessages[r][Len(progressMessages[r])] = MsgQueued
    /\ returned[r] = Join(progressMessages[r], "\n")
    /\ Len(humanReviewQueue) = Len(queueAtStart[r]) + 1
    /\ SubSeq(humanReviewQueue, 1, Len(queueAtStart[r])) = queueAtStart[r]

LastQueued == humanReviewQueue[Len(humanReviewQueue)]

\* C1: whenever the provider's answer is exactly the string '{}', the run
\* ends in QueuedForReview, and validateRequiredFields, classifyTicketType
\* and the two ticket commands are never invoked for that email.
C1_EmptyObjectIsQueued ==
    \A r \in Runs :
        (Answered(r) /\ chatResult[r] = Str("{}")) =>
            /\ QueuedForReview(r)
            /\ ~Has(trace[r], "validate")
            /\ ~Has(trace[r], "classify")
            /\ ~Has(trace[r], "jira.createIssue")
            /\ ~Has(trace[r], "servicenow.createTicket")

C1_Witness ==
    \E r \in Runs : Answered(r) /\ chatResult[r] = Str("{}") /\ Done(r)

\* C2: for an email without a Subject header and a provider answering '{}',
\* the returned log contains 'queued for human review', the queue grows by
\* exactly one item, and that item has 'Analysis Failed' among its
\* missingFields and the full raw email text as its emailContent.
C2_IncompleteEmailQueued ==
    \A r \in Runs :
        (/\ Answered(r)
         /\ chatResult[r] = Str("{}")
         /\ ~StartsWith(toLowerCase(emailContent[r]), "subject:")
         /\ ~Includes(toLowerCase(emailContent[r]), "\nsubject:")) =>
            /\ Done(r)
            /\ Includes(returned[r], "queued for human review")
            /\ Len(humanReviewQueue) = Len(queueAtStart[r]) + 1
            /\ SubSeq(humanReviewQueue, 1, Len(queueAtStart[r])) = queueAtStart[r]
            /\ Has(LastQueued.missingFields, "Analysis Failed")
            /\ LastQueued.emailContent = emailContent[r]

C2_Witness ==
    \E r \in Runs :
        /\ Done(r) /\ Answered(r)
        /\ chatResult[r] = Str("{}")
        /\ emailContent[r] = EmailNoSubject
        /\ queueAtStart[r] # <<>>
        /\ queueAtStart[r][1].emailContent # EmailNoSubject

\* The answers of the provider that carry no usable analysis: no JSON at
\* all, JSON that does not parse, a fenced block, an empty payload, a
\* payload that is not a string.
UnusableAnswers ==
    {Str(AnswerNoJson), Str(AnswerTruncated), Str(AnswerFenced),
     Undefined, Str(""), Obj(<<>>)}

\* C3: when the provider's answer is unusable, the orchestrator recovers by
\* appending the email to the human-review queue and returning a 'queued
\* for human review' log; the failure is not surfaced as an error.
C3_UnusableAnswerIsQueued ==
    \A r \in Runs :
        (Done(r) /\ Answered(r) /\ chatResult[r] \in UnusableAnswers) =>
            /\ Includes(returned[r], "queued for human review")
            /\ ~StartsWith(returned[r], "Error: ")
            /\ Len(humanReviewQueue) = Len(queueAtStart[r]) + 1

\* The three terminal outcomes of a single-email run, read off the string
\* the caller receives.
IsCreatedConfirmation(s) == Includes(s, "created successfully") /\ Includes(s, "Ticket Details:")
IsQueuedNotice(s)        == Includes(s, "queued for human review")
IsSubmissionError(s)     == Includes(s, "Error creating ticket: Failed to create ")

\* C4: for every single-email '/start' run, whatever the provider returns
\* and however the ticket systems behave, the caller receives a
\* created-ticket confirmation, a 'queued for human review' notice or an
\* explicit submission-error message, and nothing else.
C4_ThreeOutcomes ==
    \A r \in Runs :
        (Done(r) /\ Answered(r)) =>
            \/ IsCreatedConfirmation(returned[r])
            \/ IsQueuedNotice(returned[r])
            \/ IsSubmissionError(returned[r])

\* C5: when validateRequiredFields returns a non-empty list, the run ends
\* in QueuedForReview: exactly one item is appended, with reason 'Missing
\* required fields', the validator's list as missingFields and the analysis
\* as partialAnalysis, and neither classification nor submission happens.
C5_MissingFieldsAreQueued ==
    \A r \in Runs :
        (Has(trace[r], "validate") /\ Len(validateRequiredFields(analysis[r])) > 0) =>
            /\ QueuedForReview(r)
            /\ LastQueued.reason = "Missing required fields"
            /\ LastQueued.missingFields = validateRequiredFields(analysis[r])
            /\ LastQueued.partialAnalysis = analysis[r]
            /\ LastQueued.emailContent = emailContent[r]
            /\ ~Has(trace[r], "classify")
            /\ ~Has(trace[r], "jira.createIssue")
            /\ ~Has(trace[r], "servicenow.createTicket")

C5_Witness ==
    \E r \in Runs :
        /\ Done(r)
        /\ Has(trace[r], "validate")
        /\ validateRequiredFields(analysis[r]) = <<AccountLabel>>
        /\ queueAtStart[r] # <<>>

\* The ticket submission of the run succeeded.
Submitted(r) ==
    /\ Done(r)
    /\ Has(trace[r], "jira.createIssue") \/ Has(trace[r], "servicenow.createTicket")
    /\ ~submitResult[r].throws

\* C6: whenever ticket submission succeeds, the log returned to the caller
\* contains the submitter's confirmation '<System> <kind> created: <id>'.
C6_ConfirmationInLog ==
    \A r \in Runs :
        Submitted(r) =>
            /\ Includes(submitResult[r].s, " created: ")
            /\ Includes(returned[r], submitResult[r].s)

\* The ticket submission of the run failed.
SubmissionFailed(r) ==
    /\ Done(r)
    /\ Has(trace[r], "jira.createIssue") \/ Has(trace[r], "servicenow.createTicket")
    /\ submitResult[r].throws

\* C7: a failing ticket-system call is wrapped in an error whose message
\* names the target system, reaches the orchestrator and ends the run in
\* Failed: the returned log contains the message, has no 'created
\* successfully' line and no ticket details, and the queue is unchanged.
C7_SubmissionFailureReported ==
    \A r \in Runs :
        SubmissionFailed(r) =>
            /\ Has(trace[r], "jira.createIssue") => Includes(submitResult[r].s, "Jira")
            /\ Has(trace[r], "servicenow.createTicket") =>
                   Includes(submitResult[r].s, "ServiceNow")
            /\ Includes(returned[r], submitResult[r].s)
            /\ returned[r] = Join(progressMessages[r], "\n")
            /\ progressMessages[r][Len(progressMessages[r])] = MsgErrorCreating(submitResult[r].s)
            /\ \A i \in 1..Len(progressMessages[r]) :
                   /\ progressMessages[r][i] \notin {MsgJiraCreated, MsgSnowCreated}
                   /\ ~Includes(progressMessages[r][i], "Ticket Details:")
                   /\ ~Includes(progressMessages[r][i], "[key] ID: ")
            /\ humanReviewQueue = queueAtStart[r]

C7_Witness ==
    \E r \in Runs :
        /\ SubmissionFailed(r)
        /\ Has(trace[r], "servicenow.createTicket")
        /\ Includes(submitResult[r].s, "ServiceNow API error")
        /\ queueAtStart[r] # <<>>

\* C8: validateRequiredFields returns exactly the labels of the violated
\* rules in the fixed order 'Request Type', 'Priority', 'Account
\* Number/Customer ID', 'Subject': 'Request Type' iff requestType is empty,
\* 'Priority' iff priority is empty, 'Account Number/Customer ID' iff both
\* accountNumber and customerId are empty, 'Subject' iff subject is empty;
\* the result is empty iff the analysis is valid.
C8_ValidatorLabels ==
    fnStage \in {"validated", "classified"} =>
        LET Empty(k) == \/ GetProp(fnInput, k).t \in {"undefined", "null"}
                        \/ GetProp(fnInput, k) = Str("")
            Violated(label) ==
                CASE label = "Request Type" -> Empty("requestType")
                  [] label = "Priority"     -> Empty("priority")
                  [] label = "Account Number/Customer ID" ->
                         Empty("accountNumber") /\ Empty("customerId")
                  [] label = "Subject"      -> Empty("subject")
            valid == /\ ~Empty("requestType") /\ ~Empty("priority") /\ ~Empty("subject")
                     /\ ~Empty("accountNumber") \/ ~Empty("customerId")
        IN /\ fnMissing = SelectSeq(<<"Request Type", "Priority",
                                      "Account Number/Customer ID", "Subject">>, Violated)
           /\ (fnMissing = <<>>) <=> valid

C8_Witness ==
    /\ fnStage = "validated"
    /\ fnMissing = <<"Request Type", "Subject">>
    /\ GetProp(fnInput, "accountNumber") = Str("")
    /\ GetProp(fnInput, "customerId") = Str("CUST789")

\* C9: classifyTicketType is the ordered first-match-wins rule chain over
\* the lower-cased requestType, subject and content: (1) requestType 'bug
\* report' or content with 'bug'/'crash' -> jira-bug; (2) requestType
\* 'feature request' or content/subject with 'feature' -> jira-feature;
\* (3) content/subject with 'epic' -> jira-epic; (4) 'story' -> jira-story;
\* (5) 'task' -> jira-task; (6) requestType 'support request' or content
\* with incident/error/broken/trouble/not working/reset ->
\* servicenow-incident; (7) otherwise servicenow-request.  In particular
\* requestType 'Bug Report' with content containing 'bug' yields jira-bug
\* whatever other keyword is present.
C9_RuleChain ==
    fnStage = "classified" =>
        LET Lower(k) == IF GetProp(fnInput, k).t = "string"
                        THEN toLowerCase(GetProp(fnInput, k).s) ELSE ""
            rt   == Lower("requestType")
            subj == Lower("subject")
            cont == Lower("content")
            AnyOf(text, words) == \E w \in words : Includes(text, w)
            Rules ==
                <<[holds |-> rt = "bug report" \/ AnyOf(cont, {"bug", "crash"}),
                   category |-> "jira-bug"],
                  [holds |-> rt = "feature request" \/ AnyOf(cont, {"feature"})
                                \/ AnyOf(subj, {"feature"}),
                   category |-> "jira-feature"],
                  [holds |-> AnyOf(cont, {"epic"}) \/ AnyOf(subj, {"epic"}),
                   category |-> "jira-epic"],
                  [holds |-> AnyOf(cont, {"story"}) \/ AnyOf(subj, {"story"}),
                   category |-> "jira-story"],
                  [holds |-> AnyOf(cont, {"task"}) \/ AnyOf(subj, {"task"}),
                   category |-> "jira-task"],
                  [holds |-> rt = "support request"
                                \/ AnyOf(cont, {"incident", "error", "broken", "trouble",
                                              "not working", "reset"}),
                   category |-> "servicenow-incident"],
                  [holds |-> TRUE, category |-> "servicenow-request"]>>
            first == CHOOSE i \in 1..7 :
                         Rules[i].holds /\ \A j \in 1..(i - 1) : ~Rules[j].holds
        IN /\ fnCategory = Rules[first].category
           /\ (GetProp(fnInput, "requestType") = Str("Bug Report") /\ Includes(cont, "bug"))
                  => fnCategory = "jira-bug"

C9_Witness ==
    /\ fnStage = "classified"
    /\ GetProp(fnInput, "requestType") = Str("Bug Report")
    /\ GetProp(fnInput, "subject") = Str("New Feature idea")
    /\ GetProp(fnInput, "content") = Str("bug feature epic story task error")
    /\ fnCategory = "jira-bug"

Categories ==
    {"jira-bug", "jira-feature", "jira-epic", "jira-story", "jira-task",
     "servicenow-incident", "servicenow-request"}

\* C10 as stated: over all validated analyses, the values classifyTicketType
\* returns are exactly six categories.
C10_SixCategories == Cardinality(categoriesSeen) <= 6

\* C10, amended: over all validated analyses, the values classifyTicketType
\* returns are exactly the seven categories jira-bug, jira-feature,
\* jira-epic, jira-story, jira-task, servicenow-incident and
\* servicenow-request.
C10_SevenCategories ==
    /\ categoriesSeen \subseteq Categories
    /\ fnStage = "classified" => fnCategory \in Categories

C10_Witness == categoriesSeen = Categories

\* The rank of a stage in Analyzing -> Validating -> Classifying ->
\* Submitting; the rejection of the provider call and the enqueue end a run.
StageRank(stage) ==
    CASE stage = "analyze"                 -> 1
      [] stage = "validate"                -> 2
      [] stage = "classify"                -> 3
      [] stage = "jira.createIssue"        -> 4
      [] stage = "servicenow.createTicket" -> 4
      [] stage = "chat.rejected"           -> 5
      [] stage = "enqueue"                 -> 5

TicketCalls(t) ==
    {i \in 1..Len(t) : t[i] \in {"jira.createIssue", "servicenow.createTicket"}}

\* The run is inside handleSingleEmailAnalysis or has left it.
InPipeline(r) == pc[r] \in {"awaitChat", "awaitJira", "awaitServiceNow"} \/ trace[r] # <<>>

StagesInOrder(r) ==
    LET t == trace[r]
    IN /\ \A i, j \in 1..Len(t) : i < j => StageRank(t[i]) < StageRank(t[j])
       /\ InPipeline(r) => Cardinality({i \in 1..Len(t) : t[i] = "analyze"}) = 1
       /\ Cardinality(TicketCalls(t)) <= 1
       /\ TicketCalls(t) # {} =>
              /\ Has(t, "validate") /\ Has(t, "classify") /\ ~Has(t, "enqueue")
              /\ validateRequiredFields(analysis[r]) = <<>>
       /\ Has(t, "enqueue") => ~Has(t, "classify")
       /\ (Has(t, "enqueue") \/ Has(t, "chat.rejected")) => Done(r)

\* C11: within one email's run the stages happen strictly in the order
\* Analyzing -> Validating -> Classifying -> Submitting, without retry or
\* backtracking: the provider is invoked exactly once, a ticket system at
\* most once and only after the validator returned no missing field, and
\* once the run has ended no further stage executes.
C11_StagesInOrder ==
    /\ [](\A r \in Runs : StagesInOrder(r))
    /\ [][\A r \in Runs : Done(r) => Len(trace'[r]) <= Len(trace[r])]_vars

C11_Witness ==
    \E r \in Runs :
        /\ Done(r)
        /\ trace[r] = <<"analyze", "validate", "classify", "servicenow.createTicket">>
        /\ Len(humanReviewQueue) = Len(queueAtStart[r])
        /\ queueAtStart[r] # <<>>

\* C16: the human-review queue is append-only: across any sequence of
\* handler operations its length never decreases, the items in it are never
\* removed, replaced or reordered, addToHumanReviewQueue is the only
\* operation that changes it, and the items appear in the order their
\* emails were processed.
C16_QueueAppendOnly ==
    [][\/ humanReviewQueue' = humanReviewQueue
       \/ /\ Len(humanReviewQueue') = Len(humanReviewQueue) + 1
          /\ SubSeq(humanReviewQueue', 1, Len(humanReviewQueue)) = humanReviewQueue
          /\ \E r \in Runs :
                /\ pc[r] = "awaitChat"
                /\ trace'[r] # trace[r]
                /\ trace'[r][Len(trace'[r])] = "enqueue"
                /\ humanReviewQueue'[Len(humanReviewQueue')].emailContent = emailContent[r]
                /\ \A q \in Runs : q > r => pc[q] = "idle"]_vars

C16_Witness ==
    /\ Len(humanReviewQueue) = 2
    /\ humanReviewQueue[1].emailContent # humanReviewQueue[2].emailContent
    /\ humanReviewQueue[1].reason # humanReviewQueue[2].reason

\* C18: handleChatCommand with a command other than '/start' returns
\* exactly 'Unknown command. Available commands: /start' and has no effect:
\* neither the provider nor a ticket system is called and the queue is
\* unchanged.
C18_UnknownCommand ==
    \A r \in Runs :
        (pc[r] # "idle" /\ command[r] \in Commands \ {"/start"}) =>
            /\ Done(r)
            /\ returned[r] = "Unknown command. Available commands: /start"
            /\ trace[r] = <<>>
            /\ progressMessages[r] = <<>>
            /\ ticket[r] = NoTicket
            /\ humanReviewQueue = queueAtStart[r]

C18_Witness ==
    \E r \in Runs :
        /\ Done(r)
        /\ command[r] = "/invalid"
        /\ queueAtStart[r] # <<>>

\* C19: for every email whose header block has a non-empty 'Subject:'
\* header, parseEmail returns headers.subject equal to that header's value
\* with leading and trailing white space removed.
C19_SubjectTrimmed ==
    (parsedEmail # NotParsed /\ parseInput.hasSubject /\ trim(parseInput.subject) # "") =>
        parsedEmail.headers.subject = Str(trim(parseInput.subject))

\* The input has no Subject header: no line of it starts with 'subject:'
\* in any letter case.
NoSubjectLine(text) ==
    \A i \in 1..(Len(text) - 7) :
        toLowerCase(SubSeq(text, i, i + 7)) = "subject:" =>
            ~(i = 1 \/ CharAt(text, i - 1) \in LineEnds)

C17_SnapshotIsolated ==
    [][lastCall' # "getHumanReviewQueue" => humanReviewQueue' = humanReviewQueue]_vars

\* ------------------------------------------------------------------------
\* Bulk analysis: vocabulary
\* ------------------------------------------------------------------------

IsPrefix(a, b) == Len(a) <= Len(b) /\ SubSeq(b, 1, Len(a)) = a

\* handleBulkAnalysis is running or has returned.
InBulkAnalysis == bulkMessages # <<>>

\* A run of handleSingleEmailAnalysis is at one of its awaits.
RunInProgress == pc[1] \in {"awaitChat", "awaitJira", "awaitServiceNow"}

\* The events recorded for a file.
EventsOf(path, events) ==
    {i \in 1..Len(fileEvents) : fileEvents[i].file = path /\ fileEvents[i].event \in events}

EndEvents == {"created", "failed", "queued", "no ticket", "threw", "unreadable", "analyzed"}

\* The place of a file in the input.
PlaceOf(path) == CHOOSE k \in 1..Len(files) : files[k] = path

\* C12: the progress log of a run is append-only.  Every step of a run of
\* handleSingleEmailAnalysis and every step of handleBulkAnalysis leaves the
\* lines logged before in place, as a prefix of the log after the step; the
\* string a run returns (the result entry of its file) and the string
\* handleBulkAnalysis returns are the lines of the log joined by line
\* feeds, in append order.
C12_ProgressAppendOnly ==
    [][/\ RunInProgress => IsPrefix(progressMessages[1], progressMessages'[1])
       /\ InBulkAnalysis => IsPrefix(bulkMessages, bulkMessages')
       /\ (InBulkAnalysis /\ Len(results') > Len(results))
              => results'[Len(results')].result = Join(progressMessages'[1], "\n")
       /\ (InBulkAnalysis /\ pc'[1] = "done")
              => returned'[1] = Join(bulkMessages', "\n")]_vars

\* A bulk analysis of two files has returned; the run of one file created
\* a ticket, the run of the other queued its email for review.
C12_Witness ==
    /\ InBulkAnalysis
    /\ pc[1] = "done"
    /\ Len(results) = 2
    /\ \E i, j \in 1..Len(fileEvents) :
           fileEvents[i].event = "created" /\ fileEvents[j].event = "queued"
    /\ Len(progressMessages[1]) > 2

C14_FaultIsolated ==
    (pc[1] = "done" /\ files # <<>>) =>
        /\ \A k \in 1..Len(files) : EventsOf(files[k], {"start"}) # {}
        /\ IF InBulkAnalysis THEN returned[1] # "" ELSE commandOutcome.kind = "resolved"

\* The numbers a summary should show: the files whose run created a
\* ticket, and the files whose run queued the email or failed to submit.
SummaryOf(created, other) ==
    "\n[ticket] Tickets created: " \o ToString(created)
        \o "\n[warn] Failed/Queued for review: " \o ToString(other)

\* C15: the counts of the bulk summary are the counts of the outcomes.
\* When handleBulkAnalysis has returned, 'Tickets created' is the number of
\* files whose run ended with a ticket submitted, and 'Failed/Queued for
\* review' the number of files whose run ended queued for review or with a
\* submission error, whatever the text of the analyses.
C15_SummaryCounts ==
    (InBulkAnalysis /\ pc[1] = "done") =>
        Includes(bulkMessages[Len(bulkMessages)],
                 SummaryOf(Cardinality({k \in 1..Len(files) :
                                            EventsOf(files[k], {"created"}) # {}}),
                           Cardinality({k \in 1..Len(files) :
                                            EventsOf(files[k], {"failed", "queued"}) # {}})))

\* The calls of a ticket command made by a run.
CallsOf(r, name) == {i \in 1..Len(trace[r]) : trace[r][i] = name}

\* C28: a ticket goes only to the system its category names.  A run whose
\* category starts with 'jira-' has made exactly one jira.createIssue call
\* and no servicenow.createTicket call, a run whose category starts with
\* 'servicenow-' exactly one servicenow.createTicket call and no
\* jira.createIssue call; a run without such a category has made neither
\* call, and no run has made both.
C28_RoutedByPrefix ==
    \A r \in Runs :
        /\ StartsWith(ticketType[r], "jira-") =>
               /\ Cardinality(CallsOf(r, "jira.createIssue")) = 1
               /\ CallsOf(r, "servicenow.createTicket") = {}
        /\ StartsWith(ticketType[r], "servicenow-") =>
               /\ Cardinality(CallsOf(r, "servicenow.createTicket")) = 1
               /\ CallsOf(r, "jira.createIssue") = {}
        /\ CallsOf(r, "jira.createIssue") # {} => StartsWith(ticketType[r], "jira-")
        /\ CallsOf(r, "servicenow.createTicket") # {}
               => StartsWith(ticketType[r], "servicenow-")

\* A run with a 'servicenow-' category has ended with its ticket submitted.
C28_Witness ==
    \E r \in Runs :
        /\ pc[r] = "done"
        /\ StartsWith(ticketType[r], "servicenow-")
        /\ CallsOf(r, "servicenow.createTicket") # {}
        /\ ~submitResult[r].throws
        /\ submitResult[r].s # ""

\* C30: in the log of a bulk analysis a file is marked as processed
\* successfully only when its run created a ticket.  The line that ends the
\* turn of the k-th file (the third line of its turn) reads 'Email
\* processed successfully' only if the run of that file ended with its
\* ticket submitted, not if the email was queued for review or the
\* submission failed.
C30_SuccessMeansTicket ==
    InBulkAnalysis =>
        \A k \in 1..Len(files) :
            (/\ EventsOf(files[k], EndEvents) # {}
             /\ StartsWith(bulkMessages[1 + 3 * k], "[ok] Email processed successfully"))
                => EventsOf(files[k], {"created"}) # {}

\* C27: both ticket builders give the same payload.  The ticket built from
\* an analysis and a category has the title of the analysis's subject, or
\* 'No Subject' when the subject is missing, null or empty; its description
\* is the content; priority, accountNumber, customerId and attachments are
\* those of the analysis; its type is the category without the prefix
\* 'jira-' or 'servicenow-'.
C27_TicketPayload ==
    fnStage \in {"jira", "servicenow"} =>
        /\ ticket[1].title =
               (IF GetProp(fnInput, "subject") \in {Undefined, Null, Str("")}
                THEN Str("No Subject") ELSE GetProp(fnInput, "subject"))
        /\ ticket[1].description = GetProp(fnInput, "content")
        /\ \A k \in {"priority", "accountNumber", "customerId", "attachments"} :
               ticket[1][k] = GetProp(fnInput, k)
        /\ fnStage \o "-" \o ticket[1].type = fnCategory
        /\ DOMAIN ticket[1] = {"type", "title", "description", "priority", "accountNumber",
                               "customerId", "attachments"}

\* A ServiceNow ticket was built from an analysis with an empty subject and
\* with attachments.
C27_Witness ==
    /\ fnStage = "servicenow"
    /\ GetProp(fnInput, "subject") = Str("")
    /\ ticket[1].title = Str("No Subject")
    /\ ticket[1].attachments # Undefined
    /\ ticket[1].type = "request"

\* C26: an 'attachments' value supplied by the provider never reaches the
\* analysis or a ticket.  The email texts of the pipeline's runs carry no
\* attachment block, so the analysis of a run and the ticket built from it
\* have no 'attachments' value that the provider's answer brought along.
C26_AttachmentsFromEmail ==
    \A r \in Runs :
        /\ analysis[r].t = "object" => GetProp(analysis[r], "attachments") = Undefined
        /\ ticket[r].attachments = Undefined

\* ------------------------------------------------------------------------
\* The analyze command and analyzeEmail: vocabulary
\* ------------------------------------------------------------------------

\* The content of the first fenced JSON block of a text; found is FALSE
\* when the text has no such block.
FencedBlock(text) ==
    LET open  == IndexOf(text, "'''json\n", 1)
        close == IF open = 0 THEN 0 ELSE IndexOf(text, "\n'''", open + 8)
    IN [found |-> close > 0,
        text  |-> IF close > 0 THEN SubSeq(text, open + 8, close - 1) ELSE ""]

RECURSIVE ClosingBrace(_, _, _)

\* Where the braces opened before position i, depth of them still open,
\* are all closed; 0 when they are not.  The scan goes from brace to brace.
ClosingBrace(text, i, depth) ==
    LET open  == IndexOf(text, "{", i)
        close == IndexOf(text, "}", i)
    IN IF close = 0 THEN 0
       ELSE IF open # 0 /\ open < close THEN ClosingBrace(text, open + 1, depth + 1)
       ELSE IF depth = 1 THEN close
       ELSE ClosingBrace(text, close + 1, depth - 1)

\* The first brace-delimited object of a text: from the first opening
\* brace to the brace that closes it.
FirstObject(text) ==
    LET open  == IndexOf(text, "{", 1)
        close == IF open = 0 THEN 0 ELSE ClosingBrace(text, open + 1, 1)
    IN [found |-> close > 0,
        text  |-> IF close > 0 THEN SubSeq(text, open, close) ELSE ""]

\* The JSON of a response: the fenced block when present, else the first
\* object.
ResponseJson(text) ==
    IF FencedBlock(text).found THEN FencedBlock(text) ELSE FirstObject(text)

\* The members of an analysis other than 'attachments'.
OwnFields(members) == SelectSeq(members, LAMBDA e : e.k # "attachments")

\* What a call of analyzeEmail gave for the provider's response: it failed
\* with message, or it gave an analysis with the members fields.
ResponseHandled(response, failed, message, fields) ==
    IF ~Truthy(response) \/ response.t # "string"
    THEN failed /\ message = "Invalid response from chat model"
    ELSE /\ ~ResponseJson(response.s).found
                => failed /\ message = "No JSON found in response"
         /\ (ResponseJson(response.s).found /\ ~JSONParse(ResponseJson(response.s).text).ok)
                => failed /\ message = SyntaxErrorMessage
         /\ (/\ ResponseJson(response.s).found
             /\ JSONParse(ResponseJson(response.s).text).ok
             /\ JSONParse(ResponseJson(response.s).text).v.t = "object")
                => /\ ~failed
                   /\ fields = OwnFields(JSONParse(ResponseJson(response.s).text).v.m)
         /\ response.s = "{}" => ~failed /\ fields = <<>>

\* analyzeEmail of the extension has handled an answer of the provider.
CommandAnswered ==
    /\ command[1] = "email-analyzer.analyzeEmail"
    /\ pc[1] = "done"
    /\ Has(trace[1], "analyze")
    /\ ~Has(trace[1], "chat.rejected")

\* analyzeEmail of emailAnalyzer.ts has handled an answer of the provider.
ContentAnswered ==
    /\ pc[2] \in {"done", "thrown"}
    /\ ~Has(trace[2], "chat.rejected")

\* C25: how analyzeEmail reads the provider's response.  An empty or
\* non-string response fails with 'Invalid response from chat model';
\* otherwise the JSON is the content of the fenced block when there is one,
\* else the first brace-delimited object: without either the call fails
\* with 'No JSON found in response', with JSON that does not parse it fails
\* with the parser's error, and with an object it gives the analysis with
\* that object's fields; the response '{}' gives an analysis without fields.
C25_ResponseHandling ==
    /\ CommandAnswered =>
           ResponseHandled(chatResult[1], commandOutcome.analyzed.throws,
                           IF commandOutcome.analyzed.throws
                           THEN commandOutcome.analyzed.message ELSE "",
                           IF commandOutcome.analyzed.throws THEN <<>>
                           ELSE commandOutcome.analyzed.v.fields)
    /\ ContentAnswered =>
           ResponseHandled(chatResult[2], pc[2] = "thrown", returned[2],
                           OwnFields(analysis[2].m))

\* C29: the command 'email-analyzer.analyzeEmail' on an email without a
\* Subject header throws an error that mentions the subject, and the
\* provider is not invoked.  When the command has ended on an editor text
\* that has no line starting with 'Subject:', it has rejected with a
\* message containing 'subject' and analyzeEmail was never called.
C29_NoSubjectThrows ==
    (/\ command[1] = "email-analyzer.analyzeEmail"
     /\ pc[1] = "done"
     /\ emailContent[1] # ""
     /\ NoSubjectLine(emailContent[1]))
        => /\ ~Has(trace[1], "analyze")
           /\ commandOutcome.kind = "rejected"
           /\ Includes(toLowerCase(commandOutcome.message), "subject")

\* Where the first blank line of a text is: the first line break that is
\* followed at once by another, in either convention; at is 0 without one.
FirstBlankLine(text) ==
    LET lf   == IndexOf(text, "\n\n", 1)
        crlf == IndexOf(text, "\r\n\r\n", 1)
    IN IF crlf # 0 /\ (lf = 0 \/ crlf < lf) THEN [at |-> crlf, len |-> 4]
       ELSE [at |-> lf, len |-> 2]

\* C24: parseEmail splits the input at the first blank line.  The header
\* fields are those set by the lines before the first blank line, the body
\* is the text after it without its attachment blocks, and the attachments
\* are those of the blocks after it, in their order; without a blank line
\* the whole input is the header block.
C24_SplitAtBlankLine ==
    parsedEmail # NotParsed =>
        parsedEmail =
            (IF FirstBlankLine(parseInput.text).at = 0
             THEN ParsedEmail(parseInput.text, "")
             ELSE ParsedEmail(SubSeq(parseInput.text, 1,
                                     FirstBlankLine(parseInput.text).at - 1),
                              SubSeq(parseInput.text,
                                     FirstBlankLine(parseInput.text).at
                                         + FirstBlankLine(parseInput.text).len,
                                     Len(parseInput.text))))

\* The attachments of the parsed email stand for the blocks of the input,
\* in their order.
AttachmentsParsed ==
    /\ parsedEmail # NotParsed
    /\ "blocks" \in DOMAIN parseInput

\* The non-blank lines of a text.
NonBlankLines(text) == SelectSeq(split(text, "\n"), LAMBDA line : trim(line) # "")

\* The header of a line of a table: its first cell, trimmed.
HeaderOf(line) == trim(split(line, ",")[1])

\* The first value of a line of a table, trimmed; undefined when the line
\* has a single cell.
FirstValueOf(line) ==
    IF Len(split(line, ",")) > 1 THEN Str(trim(split(line, ",")[2])) ELSE Undefined

\* The mapping from each line's header to the first value of the last line
\* that has this header.
LastWriteWins(mapping, lines) ==
    /\ DOMAIN mapping = {HeaderOf(lines[j]) : j \in 1..Len(lines)}
    /\ \A j \in 1..Len(lines) :
           (\A k \in (j + 1)..Len(lines) : HeaderOf(lines[k]) # HeaderOf(lines[j])) =>
               mapping[HeaderOf(lines[j])] = FirstValueOf(lines[j])

\* C23: enrichment is selected by the content type only: an attachment has
\* parsedContent iff its contentType is text/csv, and then parsedContent
\* maps each non-blank line's header to that line's first value, a later
\* line overwriting an earlier one with the same header; it has
\* extractedText iff its contentType is application/pdf, and then
\* extractedText equals content; for any other type it has neither.
C23_EnrichmentByContentType ==
    AttachmentsParsed =>
        /\ Len(parsedEmail.attachments) = Len(parseInput.blocks)
        /\ \A i \in 1..Len(parsedEmail.attachments) :
               \E a \in {parsedEmail.attachments[i]} :
                   /\ a.contentType = parseInput.blocks[i].contentType
                   /\ "parsedContent" \in DOMAIN a <=> a.contentType = "text/csv"
                   /\ "parsedContent" \in DOMAIN a =>
                          LastWriteWins(a.parsedContent, NonBlankLines(a.content))
                   /\ "extractedText" \in DOMAIN a <=> a.contentType = "application/pdf"
                   /\ "extractedText" \in DOMAIN a => a.extractedText = a.content

\* A parsed email with a table in which a later line has overwritten an
\* earlier one, next to a PDF with its extracted text.
C23_Witness ==
    /\ AttachmentsParsed
    /\ \E i, j \in 1..Len(parsedEmail.attachments) :
           /\ parsedEmail.attachments[i].contentType = "text/csv"
           /\ parsedEmail.attachments[i].content = "a,1\nb,2\na,3"
           /\ parsedEmail.attachments[i].parsedContent = [k \in {"a", "b"} |->
                  IF k = "a" THEN Str("3") ELSE Str("2")]
           /\ parsedEmail.attachments[j].contentType = "application/pdf"
           /\ parsedEmail.attachments[j].extractedText = "Hi"

\* The text is base64 as RFC 4648 writes it: groups of four characters of
\* the alphabet, the last group ending with at most two '='.
IsBase64(text) ==
    /\ Len(text) > 0
    /\ Len(text) % 4 = 0
    /\ \A i \in 1..Len(text) :
           \/ IndexOf(Base64Chars, CharAt(text, i), 1) > 0
           \/ CharAt(text, i) = "=" /\ i >= Len(text) - 1
                 /\ (i = Len(text) \/ CharAt(text, Len(text)) = "=")

\* The text holds a character that no base64 text holds: one that is not of
\* the alphabet, not a '=' and not white space.
NotBase64(text) ==
    \E i \in 1..Len(text) :
        /\ unbase64(CharAt(text, i)) < 0
        /\ CharAt(text, i) \notin SpaceChars \cup {"="}

\* The sequence without its i-th element.
Without(seq, i) == SubSeq(seq, 1, i - 1) \o SubSeq(seq, i + 1, Len(seq))

\* C21: when the Content of one attachment block cannot be decoded as
\* base64, parseEmail drops that attachment and returns the headers, the
\* body and every other attachment exactly as it would without the bad
\* block; the parse as a whole never fails.
C21_BadAttachmentDropped ==
    AttachmentsParsed =>
        \A i \in 1..Len(parseInput.blocks) :
            (/\ NotBase64(parseInput.blocks[i].payload)
             /\ \A j \in 1..Len(parseInput.blocks) :
                    j # i => IsBase64(parseInput.blocks[j].payload)) =>
                parsedEmail = parseEmail(AttachmentEmail(Without(parseInput.blocks, i)))

\* The decimal number written by the digits.
RECURSIVE NumberOf(_)
NumberOf(digits) ==
    IF digits = "" THEN 0
    ELSE NumberOf(SubSeq(digits, 1, Len(digits) - 1)) * 10
             + IndexOf("0123456789", CharAt(digits, Len(digits)), 1) - 1

\* The code points of a decoded text from position i on, \u{n} read as the
\* character it stands for.
RECURSIVE CodePoints(_, _)
CodePoints(text, i) ==
    IF i > Len(text) THEN <<>>
    ELSE IF i + 2 <= Len(text) /\ SubSeq(text, i, i + 2) = "\\u{"
    THEN <<NumberOf(SubSeq(text, i + 3, IndexOf(text, "}", i) - 1))>>
             \o CodePoints(text, IndexOf(text, "}", i) + 1)
    ELSE <<CHOOSE n \in {9, 10, 13} \cup 32..126 : charOf(n) = CharAt(text, i)>>
             \o CodePoints(text, i + 1)

\* The UTF-8 bytes of a sequence of code points.
RECURSIVE Utf8Bytes(_)
Utf8Bytes(codes) ==
    IF codes = <<>> THEN <<>>
    ELSE (IF codes[1] < 128 THEN <<codes[1]>>
          ELSE IF codes[1] < 2048 THEN <<192 + codes[1] \div 64, 128 + (codes[1] % 64)>>
          ELSE IF codes[1] < 65536
          THEN <<224 + codes[1] \div 4096, 128 + ((codes[1] \div 64) % 64), 128 + (codes[1] % 64)>>
          ELSE <<240 + codes[1] \div 262144, 128 + ((codes[1] \div 4096) % 64),
                 128 + ((codes[1] \div 64) % 64), 128 + (codes[1] % 64)>>)
             \o Utf8Bytes(Tail(codes))

\* The character of the base64 alphabet for six bits.
Base64Char(n) == CharAt(Base64Chars, n + 1)

\* The base64 text of a sequence of bytes, padded.
RECURSIVE Base64Of(_)
Base64Of(b) ==
    IF Len(b) = 0 THEN ""
    ELSE IF Len(b) = 1
    THEN Base64Char(b[1] \div 4) \o Base64Char((b[1] % 4) * 16) \o "=="
    ELSE IF Len(b) = 2
    THEN Base64Char(b[1] \div 4) \o Base64Char((b[1] % 4) * 16 + b[2] \div 16)
             \o Base64Char((b[2] % 16) * 4) \o "="
    ELSE Base64Char(b[1] \div 4) \o Base64Char((b[1] % 4) * 16 + b[2] \div 16)
             \o Base64Char((b[2] % 16) * 4 + b[3] \div 64) \o Base64Char(b[3] % 64)
             \o Base64Of(SubSeq(b, 4, Len(b)))

\* C22: for every attachment block with a base64-decodable payload,
\* encoding the attachment's decoded content as base64 again gives the
\* payload of the block.
C22_Base64RoundTrip ==
    AttachmentsParsed =>
        \A i \in 1..Len(parseInput.blocks) :
            (IsBase64(parseInput.blocks[i].payload) /\ i <= Len(parsedEmail.attachments)) =>
                Base64Of(Utf8Bytes(CodePoints(parsedEmail.attachments[i].content, 1)))
                    = parseInput.blocks[i].payload

\* The messages a rejection of a call can carry.
MessagesOf(replies) == {RejectionMessage(reply) : reply \in {x \in replies : x.kind # "value"}}

\* The call of findFiles of a single-email run rejected.
FindFilesRejected(r) ==
    Done(r) /\ command[r] = "/start" /\ emailContent[r] # "" /\ trace[r] = <<>>

\* JSON.parse threw on the provider's answer to the run.
ParseThrew(r) == Answered(r) /\ analysisOf(chatResult[r]).throws

\* The run read a field of the analysis that cannot be read as the code
\* reads it: the classifier threw a TypeError.
PipelineThrew(r) ==
    /\ Answered(r)
    /\ ~analysisOf(chatResult[r]).throws
    /\ ~analysisUnusable(analysisOf(chatResult[r]).v, chatResult[r])
    /\ validateRequiredFields(analysisOf(chatResult[r]).v) = <<>>
    /\ classifyTicketType(analysisOf(chatResult[r]).v).throws

\* The files of the bulk analysis that could not be read or whose run threw.
FilesThatThrew == {k \in 1..Len(files) : EventsOf(files[k], {"unreadable", "threw"}) # {}}

\* C31 as stated: handleChatCommand never rejects, and an exception raised
\* while finding files, reading a file, parsing the provider's answer or
\* running the pipeline makes it return 'Error: <message>', the failing
\* step adding nothing to the queue.
C31_AlwaysErrorString ==
    /\ \A r \in Runs : pc[r] # "thrown"
    /\ \A r \in Runs :
           (~SeveralFiles /\ Done(r) /\ (\/ FindFilesRejected(r)
                                          \/ Has(trace[r], "chat.rejected")
                                          \/ ParseThrew(r)
                                          \/ PipelineThrew(r))) =>
               /\ StartsWith(returned[r], "Error: ")
               /\ humanReviewQueue = queueAtStart[r]
    /\ (SeveralFiles /\ Done(1) /\ FilesThatThrew # {}) => StartsWith(returned[1], "Error: ")

\* C31, amended: handleChatCommand never rejects.  In a single-email run an
\* exception raised while finding files, by the provider's call, while
\* parsing its answer or while classifying makes it return
\* 'Error: <message>' ('Error: Unknown error' when what was thrown is not an
\* Error) with the queue as the call found it.  In a bulk analysis a file
\* that cannot be read or whose run throws ends its turn with the line
\* 'Error processing email: <message>' of the log handleBulkAnalysis
\* returns, and the queue holds an item for the queued files only.
C31_ExceptionsReported ==
    /\ \A r \in Runs : pc[r] # "thrown"
    /\ \A r \in Runs :
           (~SeveralFiles /\ Done(r)) =>
               /\ FindFilesRejected(r) =>
                      /\ returned[r] \in {ErrorResult(m) : m \in MessagesOf(FindFilesReplies)}
                      /\ humanReviewQueue = queueAtStart[r]
               /\ Has(trace[r], "chat.rejected") =>
                      /\ returned[r] \in {ErrorResult(m) : m \in MessagesOf(ChatReplies)}
                      /\ humanReviewQueue = queueAtStart[r]
               /\ ParseThrew(r) =>
                      /\ returned[r] = ErrorResult(SyntaxErrorMessage)
                      /\ humanReviewQueue = queueAtStart[r]
               /\ PipelineThrew(r) =>
                      /\ returned[r] = ErrorResult(TypeErrorMessage)
                      /\ humanReviewQueue = queueAtStart[r]
    /\ SeveralFiles =>
           /\ \A k \in FilesThatThrew :
                  \E m \in MessagesOf(ReadFileReplies(files[k]) \cup BulkChatReplies)
                               \cup {SyntaxErrorMessage, TypeErrorMessage} :
                      bulkMessages[1 + 3 * k] = MsgFileEnd(TRUE, m)
           /\ Done(1) => returned[1] = Join(bulkMessages, "\n")
           /\ Len(humanReviewQueue)
                  = Cardinality({k \in 1..Len(files) : EventsOf(files[k], {"queued"}) # {}})

\* A single-email run whose provider answered with text that is not JSON
\* has returned, after an earlier run had queued its email.
C31_Witness ==
    \E r \in Runs :
        /\ ~SeveralFiles
        /\ Done(r)
        /\ ParseThrew(r)
        /\ queueAtStart[r] # <<>>
        /\ returned[r] = "Error: Unexpected token in JSON"

\* The ticket the run handed to a ticket command.
TicketPassed(r) ==
    /\ Has(trace[r], "jira.createIssue") \/ Has(trace[r], "servicenow.createTicket")
    /\ ticket[r] # NoTicket

\* C32: every ticket passed to jira.createIssue or servicenow.createTicket
\* has a priority that is one of 'high', 'medium' and 'low'.
C32_TicketPriority ==
    \A r \in Runs :
        TicketPassed(r) => ticket[r].priority \in {Str("high"), Str("medium"), Str("low")}

\* C33: every ticket that reaches a ticket system through the pipeline has
\* a non-empty title equal to the subject of the analysis (the 'No
\* Subject' fallback is never submitted), a non-empty priority, a non-empty
\* requestType behind it, and an accountNumber or a customerId that is not
\* empty.
C33_TicketFromValidAnalysis ==
    \A r \in Runs :
        TicketPassed(r) =>
            /\ ticket[r].title = GetProp(analysis[r], "subject")
            /\ ticket[r].title.t = "string"
            /\ ticket[r].title.s # ""
            /\ Truthy(ticket[r].priority)
            /\ ticket[r].priority = GetProp(analysis[r], "priority")
            /\ Truthy(GetProp(analysis[r], "requestType"))
            /\ Truthy(ticket[r].accountNumber) \/ Truthy(ticket[r].customerId)

\* A ticket that carries a customerId and no accountNumber has been
\* submitted.
C33_Witness ==
    \E r \in Runs :
        /\ Done(r)
        /\ TicketPassed(r)
        /\ ~submitResult[r].throws
        /\ ~Truthy(ticket[r].accountNumber)
        /\ ticket[r].customerId = Str("CUST456")
        /\ ticket[r].title = Str("Dark Mode")

\* The call of '/start' the handler has answered last.
Returned(r) == Done(r) /\ command[r] = "/start"

\* The number of items the queue holds more than when the call started.
Appended(r) == Len(humanReviewQueue) - Len(queueAtStart[r])

\* The last progress line of the run is the notice of lines 61 and 82.
EndsWithNotice(r) ==
    /\ progressMessages[r] # <<>>
    /\ progressMessages[r][Len(progressMessages[r])] = MsgQueued

\* C34 as stated: a single-email run appends exactly one item to the queue
\* if and only if the log it returns contains 'queued for human review'; a
\* run that ends with a created ticket, a submission error or an
\* 'Error: ...' result leaves the queue unchanged, and no run appends more
\* than one item.
C34_QueuedIffInLog ==
    \A r \in Runs :
        Returned(r) =>
            /\ IsPrefix(queueAtStart[r], humanReviewQueue)
            /\ Appended(r) \in {0, 1}
            /\ Appended(r) = 1 <=> Includes(returned[r], "queued for human review")
            /\ (Submitted(r) \/ SubmissionFailed(r) \/ StartsWith(returned[r], "Error: "))
                   => Appended(r) = 0

\* C34, amended: a single-email run appends exactly one item to the queue
\* if and only if its last progress line is the notice 'Email has been
\* queued for human review', with which the returned log then ends; a run
\* that ends with a created ticket, a submission error or an 'Error: ...'
\* result leaves the queue unchanged, and no run appends more than one
\* item.
C34_QueuedIffNotice ==
    \A r \in Runs :
        Returned(r) =>
            /\ IsPrefix(queueAtStart[r], humanReviewQueue)
            /\ Appended(r) \in {0, 1}
            /\ Appended(r) = 1 <=> EndsWithNotice(r)
            /\ EndsWithNotice(r) => returned[r] = Join(progressMessages[r], "\n")
            /\ (Submitted(r) \/ SubmissionFailed(r) \/ StartsWith(returned[r], "Error: "))
                   => Appended(r) = 0

\* A run has created a ticket for an email whose subject quotes the
\* notice, and has left the queue of an earlier run as it was.
C34_Witness ==
    \E r \in Runs :
        /\ Returned(r)
        /\ Submitted(r)
        /\ Includes(returned[r], "queued for human review")
        /\ queueAtStart[r] # <<>>
        /\ humanReviewQueue = queueAtStart[r]

\* C35: in every bulk run over n files, the 'Tickets created' count of the
\* summary plus its 'Failed/Queued for review' count is the 'Total emails
\* processed' count n, also when a file could not be read or its run threw.
C35_SummaryAddsUp ==
    (InBulkAnalysis /\ pc[1] = "done") =>
        /\ Includes(bulkMessages[Len(bulkMessages)],
                    "Total emails processed: " \o ToString(Len(files)) \o "\n")
        /\ \E created, other \in 0..Len(files) :
               /\ created + other = Len(files)
               /\ Includes(bulkMessages[Len(bulkMessages)], SummaryOf(created, other))

\* The progress lines of a run of handleSingleEmailAnalysis, put together
\* from what the run itself was given: its analysis, its category and what
\* its ticket call returned.
OwnLines(r) ==
    <<MsgStarting, MsgExtracting>>
        \o (IF ~Has(trace[r], "validate")
            THEN IF Has(trace[r], "enqueue") THEN <<MsgAnalysisFailed, MsgQueued>> ELSE <<>>
            ELSE <<MsgExtracted(analysis[r]), MsgValidating>>
                     \o (IF Has(trace[r], "enqueue")
                         THEN <<MsgMissing(validateRequiredFields(analysis[r])), MsgQueued>>
                         ELSE <<MsgValidated, MsgClassifying>>))
        \o (IF Has(trace[r], "jira.createIssue") THEN <<MsgCreatingJira(ticketType[r])>>
            ELSE IF Has(trace[r], "servicenow.createTicket")
            THEN <<MsgCreatingSnow(ticketType[r])>> ELSE <<>>)
        \o (IF ~(Done(r) /\ TicketPassed(r)) THEN <<>>
            ELSE IF submitResult[r].throws THEN <<MsgErrorCreating(submitResult[r].s)>>
            ELSE IF Has(trace[r], "jira.createIssue")
            THEN <<MsgJiraCreated, MsgDetails("Jira", ticketType[r], analysis[r],
                                              submitResult[r].s)>>
            ELSE <<MsgSnowCreated, MsgDetails("ServiceNow", ticketType[r], analysis[r],
                                              submitResult[r].s)>>)

\* The runs that have queued their email.
Enqueuers == {r \in Runs : Has(trace[r], "enqueue")}

\* The places of the queue that hold the email of call r.
PlacesOf(r) ==
    {i \in 1..Len(humanReviewQueue) : humanReviewQueue[i].emailContent = EmailOf(r)}

\* C36: when '/start' runs on one handler interleave at their awaits, the
\* log each run returns holds its own progress lines only, in its own
\* order, and the queue holds exactly one item for each run that queued
\* its email: no item is lost, none is there twice, and none carries the
\* email or the analysis of another run.
C36_InterleavedRunsApart ==
    /\ \A r \in Runs :
           Has(trace[r], "analyze") =>
               /\ emailContent[r] = EmailOf(r)
               /\ progressMessages[r] = OwnLines(r)
               /\ Has(trace[r], "validate") => analysis[r] = analysisOf(chatResult[r]).v
               /\ (Done(r) /\ ~Has(trace[r], "chat.rejected"))
                      => returned[r] = Join(OwnLines(r), "\n")
    /\ Len(humanReviewQueue) = Cardinality(Enqueuers)
    /\ \A r \in Runs : Cardinality(PlacesOf(r)) = IF r \in Enqueuers THEN 1 ELSE 0
    /\ \A r \in Enqueuers : \A i \in PlacesOf(r) :
           /\ humanReviewQueue[i].missingFields =
                  (IF Has(trace[r], "validate") THEN validateRequiredFields(analysis[r])
                   ELSE <<"Analysis Failed">>)
           /\ humanReviewQueue[i].partialAnalysis =
                  (IF Has(trace[r], "validate") THEN analysis[r] ELSE Null)

\* Two runs that started on the empty queue have both queued their email,
\* the run that started on the second email first.
C36_Witness ==
    /\ Done(1) /\ Done(2)
    /\ queueAtStart[1] = <<>> /\ queueAtStart[2] = <<>>
    /\ Len(humanReviewQueue) >= 2
    /\ humanReviewQueue[1].emailContent = EmailOf(2)
    /\ humanReviewQueue[2].emailContent = EmailOf(1)
    /\ humanReviewQueue[1].reason # humanReviewQueue[2].reason

\* The run has passed validation: the validator was called and returned an
\* empty list.
PassedValidation(r) ==
    Has(trace[r], "validate") /\ validateRequiredFields(analysis[r]) = <<>>

\* No run has logged the line of line 128.
NoTicketLineUnreached ==
    \A r \in Runs : \A i \in 1..Len(progressMessages[r]) : progressMessages[r][i] # MsgNoTicket

\* C37: the progress line 'Email analysis complete, but no ticket was
\* created' is unreachable: every run that passes validation attempts a
\* submission, because every value classifyTicketType can return starts
\* with 'jira-' or 'servicenow-'.
C37_NoTicketUnreachable ==
    /\ NoTicketLineUnreached
    /\ \A r \in Runs :
           ~Includes(returned[r], "Email analysis complete, but no ticket was created")
    /\ \A r \in Runs :
           (Done(r) /\ PassedValidation(r)) =>
               /\ StartsWith(ticketType[r], "jira-") \/ StartsWith(ticketType[r], "servicenow-")
               /\ TicketPassed(r)

\* The call of handleChatCommand is under way.
Pending(r) == pc[r] \notin {"idle", "done"}

\* The loop of handleBulkAnalysis has taken up every file once and ended
\* the turn of each once.
EveryFileOnce ==
    /\ fileIndex = Len(files)
    /\ \A k \in 1..Len(files) :
           /\ Cardinality(EventsOf(files[k], {"start"})) = 1
           /\ Cardinality(EventsOf(files[k], EndEvents)) = 1

\* C38: provided every external call (file search, file read, analysis
\* provider, ticket system) eventually returns or throws, every
\* single-email run eventually reaches a terminal outcome and returns, and
\* a bulk run over n files returns after exactly n turns of its loop,
\* however many files fail.
C38_RunsReturn ==
    /\ \A r \in Runs : [](Pending(r) => <>(Done(r) /\ returned[r] # ""))
    /\ []((SeveralFiles /\ Done(1)) => EveryFileOnce)
    /\ [](SeveralFiles => fileIndex <= Len(files))

\* A bulk run has returned although a file could not be read and the run
\* of another threw.
C38_Witness ==
    /\ SeveralFiles
    /\ Done(1)
    /\ returned[1] # ""
    /\ \E j, k \in 1..Len(files) :
           /\ EventsOf(files[j], {"unreadable"}) # {}
           /\ EventsOf(files[k], {"threw"}) # {}

\* The header lines that may follow the Subject line, with the field each
\* sets and its value.
NextHeaders ==
    {[line |-> "From: a@b.com", key |-> "from", value |-> "a@b.com"],
     [line |-> "To: x@y.com", key |-> "to", value |-> "x@y.com"]}

\* The email starts with a Subject line that has no value (nothing, or
\* only a blank, after the colon), and the header line h comes next.
EmptySubjectBefore(h) ==
    /\ parseInput.hasSubject
    /\ trim(parseInput.subject) = ""
    /\ \E eol \in {"\n", "\r\n"} :
           StartsWith(parseInput.text, "Subject:" \o parseInput.subject \o eol \o h.line)

\* C39: a header line with a recognized key and an empty value ('Subject:'
\* followed by a line break) leaves its field at the default, subject = '',
\* and the next header line is still parsed as a header of its own: it
\* sets its own field and is not taken as the value of the empty one.
C39_EmptyHeaderLeavesNextAlone ==
    \A h \in NextHeaders :
        (parsedEmail # NotParsed /\ EmptySubjectBefore(h)) =>
            /\ parsedEmail.headers.subject = Str("")
            /\ parsedEmail.headers[h.key] = Str(h.value)

====
